---- MODULE Spec2Model ----
(***************************************************************************)
(* Model of the ETL core of guidellm-reports: src/data_parsers.py          *)
(* (extract_dataset_settings, parse_benchmark_metrics,                     *)
(* parse_individual_requests, load_data_from_config,                       *)
(* create_dataset_identifier, filter_data_by_levels).                      *)
(*                                                                         *)
(* Encoding of Python values                                               *)
(*   dict      a function from key strings to values; the empty dict is    *)
(*             <<>>; a key is absent when it is not in the DOMAIN          *)
(*   None      the record None                                             *)
(*   number    Num(n): integers stand for int and float values alike       *)
(*   string    Str(t): t is the sequence of the string's symbols; a symbol *)
(*             is one character, or a whole key name such as               *)
(*             "prompt_tokens" that the code only ever compares as a unit  *)
(*   list      PyList(xs), xs the sequence of its elements                 *)
(*   raise     a function that raises returns Raised(<exception name>)     *)
(***************************************************************************)
EXTENDS Integers, Sequences, FiniteSets, TLC

VARIABLES
    pc,                \* position of the run: which operation acts next
    request_loader,    \* argument of extract_dataset_settings
    dataset_settings,  \* its result
    filepath,          \* argument of the two extractors
    extra_metadata,    \* argument of the two extractors
    rows,              \* result of parse_benchmark_metrics
    all_requests,      \* result of parse_individual_requests
    exception,         \* exception that escaped the last operation, "" if none
    files,             \* file system: path -> what json.load gives for it
    listing,           \* the paths of the file system in directory order
    config,            \* cfg: the dict of the YAML configuration
    parser_func,       \* the extractor load_data_from_config is given
    df,                \* the table main builds from it
    args,              \* main: the parsed command line
    config_file,       \* main: what is at the path args.config
    summary_df,        \* main: the summary table, None before it is loaded
    requests_df,       \* main: the request table, None before it is loaded
    color_col,         \* main: the grouping column
    charts,            \* main: what generate_all_charts returned
    exit_status        \* main: the exit status of the process, -1 while it runs

\* the variables only main uses
mainVars == <<args, config_file, summary_df, requests_df, color_col, charts,
              exit_status>>

vars == <<pc, request_loader, dataset_settings, filepath, extra_metadata,
          rows, all_requests, exception, files, listing, config, parser_func,
          df, args, config_file, summary_df, requests_df, color_col, charts,
          exit_status>>

----------------------------------------------------------------------------
(* Python values *)

None == [kind |-> "none", num |-> 0, text |-> <<>>]
Num(n) == [kind |-> "num", num |-> n, text |-> <<>>]
Str(t) == [kind |-> "str", num |-> 0, text |-> t]
PyList(xs) == [kind |-> "list", num |-> Len(xs), text |-> <<>>, items |-> xs]
EmptyDict == <<>>
Raised(e) == [exception |-> e]
IsRaised(r) == "exception" \in DOMAIN r

\* d.get(k, default)
Get(d, k, default) == IF k \in DOMAIN d THEN d[k] ELSE default

\* truth value of a dict-or-None: None and {} are falsy
Truthy(d) == d # None /\ DOMAIN d # {}

\* row.update(other): keys of other overwrite keys of d
Update(d, other) == other @@ d

----------------------------------------------------------------------------
(* Python string operations on symbol sequences *)

Digits == {"0", "1", "2", "3", "4", "5", "6", "7", "8", "9"}

DigitValue(c) ==
    CASE c = "0" -> 0 [] c = "1" -> 1 [] c = "2" -> 2 [] c = "3" -> 3
      [] c = "4" -> 4 [] c = "5" -> 5 [] c = "6" -> 6 [] c = "7" -> 7
      [] c = "8" -> 8 [] c = "9" -> 9

\* mutant: no string counts as a digit string, so no value is coerced
IsDigitNever(t) == FALSE

\* str.isdigit(): non-empty and every character a digit
IsDigit(t) == Len(t) > 0 /\ \A i \in 1..Len(t) : t[i] \in Digits

\* int(t) for a digit string
RECURSIVE ParseInt(_)
ParseInt(t) ==
    IF Len(t) = 0 THEN 0
    ELSE 10 * ParseInt(SubSeq(t, 1, Len(t) - 1)) + DigitValue(t[Len(t)])

\* str(n) for a natural number n
RECURSIVE Decimal(_)
Decimal(n) ==
    IF n < 10 THEN <<CHOOSE c \in Digits : DigitValue(c) = n>>
    ELSE Decimal(n \div 10) \o <<CHOOSE c \in Digits : DigitValue(c) = n % 10>>

StartsWith(t, p) == Len(t) >= Len(p) /\ SubSeq(t, 1, Len(p)) = p
EndsWith(t, p) == Len(t) >= Len(p) /\ SubSeq(t, Len(t) - Len(p) + 1, Len(t)) = p

\* index of the first occurrence of symbol c in t, 0 when there is none
RECURSIVE Find(_, _)
Find(t, c) ==
    IF Len(t) = 0 THEN 0
    ELSE IF t[1] = c THEN 1
    ELSE LET r == Find(Tail(t), c) IN IF r = 0 THEN 0 ELSE r + 1

\* t.split(c): the pieces of t between occurrences of c
RECURSIVE Split(_, _)
Split(t, c) ==
    LET i == Find(t, c) IN
    IF i = 0 THEN <<t>>
    ELSE <<SubSeq(t, 1, i - 1)>> \o Split(SubSeq(t, i + 1, Len(t)), c)

----------------------------------------------------------------------------
(* ast.literal_eval and json.loads, on the strings the model feeds them *)

\* ast.literal_eval(t) for a t that starts with [' and ends with ']: the text
\* between the brackets is a run of '...' literals; a comma starts the next
\* list element, two adjacent literals concatenate, anything else is a
\* SyntaxError. Result: [ok |-> TRUE, list |-> elements] or ok |-> FALSE.
RECURSIVE Literals(_)
Literals(t) ==
    IF Len(t) = 0 \/ t[1] # "'" THEN [ok |-> FALSE, list |-> <<>>]
    ELSE LET j == Find(Tail(t), "'") IN
         IF j = 0 THEN [ok |-> FALSE, list |-> <<>>]
         ELSE LET lit  == SubSeq(Tail(t), 1, j - 1)
                  rest == SubSeq(Tail(t), j + 1, Len(Tail(t)))
              IN  IF Len(rest) = 0 THEN [ok |-> TRUE, list |-> <<lit>>]
                  ELSE IF rest[1] = "," THEN
                      LET r == Literals(Tail(rest)) IN
                      IF r.ok THEN [ok |-> TRUE, list |-> <<lit>> \o r.list]
                      ELSE r
                  ELSE IF rest[1] = "'" THEN
                      LET r == Literals(rest) IN
                      IF r.ok
                      THEN [ok |-> TRUE,
                            list |-> <<lit \o Head(r.list)>> \o Tail(r.list)]
                      ELSE r
                  ELSE [ok |-> FALSE, list |-> <<>>]

literal_eval(t) ==
    IF Len(t) < 4 THEN [ok |-> FALSE, list |-> <<>>]
    ELSE Literals(SubSeq(t, 2, Len(t) - 1))

\* one member of a JSON object: "key":digits
JsonMember(piece) ==
    IF /\ Len(piece) >= 5
       /\ piece[1] = "\"" /\ piece[3] = "\"" /\ piece[4] = ":"
       /\ piece[2] \notin {"\"", ":", ",", "{", "}"}
       /\ IsDigit(SubSeq(piece, 5, Len(piece)))
       /\ (piece[5] # "0" \/ Len(piece) = 5)
    THEN [ok |-> TRUE, key |-> piece[2],
          value |-> Num(ParseInt(SubSeq(piece, 5, Len(piece))))]
    ELSE [ok |-> FALSE, key |-> "", value |-> None]

RECURSIVE JsonMembers(_)
JsonMembers(pieces) ==
    IF Len(pieces) = 0 THEN [ok |-> TRUE, dict |-> EmptyDict]
    ELSE LET m    == JsonMember(pieces[Len(pieces)])
             rest == JsonMembers(SubSeq(pieces, 1, Len(pieces) - 1))
         IN  IF m.ok /\ rest.ok
             THEN [ok |-> TRUE, dict |-> (m.key :> m.value) @@ rest.dict]
             ELSE [ok |-> FALSE, dict |-> EmptyDict]

\* json.loads(v): kind "dict" with the decoded object, kind "other" for a
\* document that decodes to something that is not an object (a number),
\* "JSONDecodeError" for an undecodable string and "TypeError" for a v that
\* is not a string.
json_loads(v) ==
    IF v.kind # "str" THEN [kind |-> "TypeError", dict |-> EmptyDict]
    ELSE LET t == v.text IN
         IF IsDigit(t) /\ (t[1] # "0" \/ Len(t) = 1)
         THEN [kind |-> "other", dict |-> EmptyDict]
         ELSE IF Len(t) >= 2 /\ t[1] = "{" /\ t[Len(t)] = "}" THEN
             IF Len(t) = 2 THEN [kind |-> "dict", dict |-> EmptyDict]
             ELSE LET ms == JsonMembers(Split(SubSeq(t, 2, Len(t) - 1), ","))
                  IN  IF ms.ok THEN [kind |-> "dict", dict |-> ms.dict]
                      ELSE [kind |-> "JSONDecodeError", dict |-> EmptyDict]
         ELSE [kind |-> "JSONDecodeError", dict |-> EmptyDict]

----------------------------------------------------------------------------
(* extract_dataset_settings *)

\* truth value of a Python value: None, 0, '' and empty containers are falsy
\* (a list or dict value is kind "list"/"dict" with num its length)
TruthyValue(v) ==
    CASE v.kind = "none" -> FALSE
      [] v.kind = "num"  -> v.num # 0
      [] v.kind = "str"  -> Len(v.text) > 0
      [] OTHER           -> v.num > 0

\* the loop over data_list[0].split(','): settings[key] = int(value) if
\* value.isdigit() else value, for every item that contains '='
RECURSIVE Settings(_)
Settings(items) ==
    IF Len(items) = 0 THEN EmptyDict
    ELSE LET item == items[Len(items)]
             prev == Settings(SubSeq(items, 1, Len(items) - 1))
             i    == Find(item, "=")
         IN  IF i = 0 THEN prev
             ELSE LET key   == SubSeq(item, 1, i - 1)
                      value == SubSeq(item, i + 1, Len(item))
                  IN  (key :> (IF IsDigit(value) THEN Num(ParseInt(value))
                                                 ELSE Str(value))) @@ prev

\* mutant: the two token counts of the default record exchanged
DefaultSettingsSwapped ==
    [prompt_tokens |-> Num(200), prompt_tokens_stdev |-> Num(0),
     output_tokens |-> Num(400), output_tokens_stdev |-> Num(0),
     processor |-> Str(<<"multiturn">>)]

DefaultSettings ==
    [prompt_tokens |-> Num(400), prompt_tokens_stdev |-> Num(0),
     output_tokens |-> Num(200), output_tokens_stdev |-> Num(0),
     processor |-> Str(<<"multiturn">>)]

\* lines 46-54: the five settings of the v0.4.0 format
ListSettings(loader, settings) ==
    [prompt_tokens       |-> Get(settings, <<"prompt_tokens">>, Num(0)),
     prompt_tokens_stdev |-> Num(0),
     output_tokens       |-> Get(settings, <<"output_tokens">>, Num(0)),
     output_tokens_stdev |-> Num(0),
     processor           |-> Get(loader, "processor", Str(<<>>))]

\* lines 56-68: the v0.3.0 format, data is a JSON object; j is
\* json.loads(data_str)
JsonSettings(loader, j) ==
    CASE j.kind = "dict" ->
            [prompt_tokens       |-> Get(j.dict, "prompt_tokens", Num(0)),
             prompt_tokens_stdev |-> Get(j.dict, "prompt_tokens_stdev", Num(0)),
             output_tokens       |-> Get(j.dict, "output_tokens", Num(0)),
             output_tokens_stdev |-> Get(j.dict, "output_tokens_stdev", Num(0)),
             processor           |-> Get(loader, "processor", Str(<<>>))]
      [] j.kind = "other" -> Raised("AttributeError")
      [] OTHER -> EmptyDict

extract_dataset_settings(loader) ==
    IF loader = None THEN DefaultSettings
    ELSE LET data_str == Get(loader, "data", Str(<<>>)) IN
         IF ~TruthyValue(data_str) THEN EmptyDict
         ELSE IF /\ data_str.kind = "str"
                 /\ StartsWith(data_str.text, <<"[", "'">>)
                 /\ EndsWith(data_str.text, <<"'", "]">>)
                 /\ literal_eval(data_str.text).ok
         THEN LET data_list == literal_eval(data_str.text).list IN
              ListSettings(loader, Settings(Split(data_list[1], ",")))
         ELSE JsonSettings(loader, json_loads(data_str))

----------------------------------------------------------------------------
(* Inputs of extract_dataset_settings *)

MaxItems == 2      \* items of a list element that holds malformed items
MaxDigits == 2     \* digits of a token count
MaxMembers == 2    \* members of a JSON-object data string

\* sep.join(pieces)
RECURSIVE Join(_, _)
Join(pieces, sep) ==
    IF Len(pieces) = 0 THEN <<>>
    ELSE IF Len(pieces) = 1 THEN pieces[1]
    ELSE pieces[1] \o <<sep>> \o Join(Tail(pieces), sep)

SeqsUpTo(S, n) == UNION {[1..k -> S] : k \in 0..n}

DigitStrings == SeqsUpTo({"5", "2"}, MaxDigits) \ {<<>>}

ItemKeys == {<<"prompt_tokens">>, <<"output_tokens">>, <<"x">>}

\* well-formed items "key=digits", and items with no '=', no value, a value
\* that is not a number, or a second '='
PairItems == {k \o <<"=">> \o v : k \in ItemKeys, v \in DigitStrings}
OddItems ==
    {<<"x">>, <<"prompt_tokens", "=">>, <<"prompt_tokens", "=", "x">>,
     <<"output_tokens", "=", "5", "=", "2">>, <<"prompt_tokens", "=", "5">>}

ListText(inner) == <<"[", "'">> \o inner \o <<"'", "]">>

\* "['k1=v1,k2=v2']": one or two well-formed items, lists with malformed
\* items, and variants with several elements or broken quoting
ListTexts ==
    {ListText(i) : i \in PairItems}
    \cup {ListText(i \o <<",">> \o j) : i, j \in PairItems}
    \cup {ListText(Join(items, ",")) : items \in SeqsUpTo(OddItems, MaxItems)}
    \cup {ListText(<<"prompt_tokens", "=", "5", "'", ",", "'",
                     "output_tokens", "=", "2">>),
          ListText(<<"prompt_tokens", "=", "5", "'", "'", "2">>),
          ListText(<<"prompt_tokens", "=", "5", "'", "x", "'", "2">>),
          <<"[", "'", "]">>}

JsonKeys == {"prompt_tokens", "output_tokens", "prompt_tokens_stdev",
             "output_tokens_stdev"}
JsonMemberTexts == {<<"\"", k, "\"", ":">> \o v :
                        k \in JsonKeys, v \in {<<"5">>, <<"5", "2">>}}

\* '{"k1":v1,"k2":v2}', and strings that are not a JSON object
JsonTexts ==
    {<<"{">> \o Join(ms, ",") \o <<"}">> :
        ms \in SeqsUpTo(JsonMemberTexts, MaxMembers)}
    \cup {<<"{", "\"", "prompt_tokens", "\"", ":", "}">>,
          <<"5", "2">>, <<"0", "5">>, <<"x">>}

\* values of a loader's 'data': strings, and values that are not strings
DataValues ==
    {Str(t) : t \in ListTexts \cup JsonTexts} \cup
    {Str(<<>>), None, Num(5),
     [kind |-> "dict", num |-> 1, text |-> <<>>],
     [kind |-> "list", num |-> 1, text |-> <<>>],
     [kind |-> "list", num |-> 0, text |-> <<>>]}

Processors == {Str(<<"synthetic">>)}

Loaders ==
    {None, EmptyDict} \cup
    {[processor |-> p] : p \in Processors} \cup
    {[data |-> d] : d \in DataValues} \cup
    {[data |-> d, processor |-> p] : d \in DataValues, p \in Processors}

----------------------------------------------------------------------------
(* Specification SpecSettings: one call of extract_dataset_settings *)

NoFiles == <<>>
NoConfig == [data |-> <<>>]
NoTable == [columns |-> {}, rows |-> <<>>]
NoArgs == [summary_only |-> FALSE, requests_only |-> FALSE]
NoConfigFile == [exists |-> FALSE, content |-> None]

\* main is not running
MainIdle ==
    /\ args = NoArgs
    /\ config_file = NoConfigFile
    /\ summary_df = None
    /\ requests_df = None
    /\ color_col = Str(<<>>)
    /\ charts = EmptyDict
    /\ exit_status = -1

InitSettings ==
    /\ pc = "extract_dataset_settings"
    /\ request_loader \in Loaders
    /\ dataset_settings = EmptyDict
    /\ filepath = Str(<<>>)
    /\ extra_metadata = EmptyDict
    /\ rows = <<>>
    /\ all_requests = <<>>
    /\ exception = ""
    /\ files = NoFiles
    /\ listing = <<>>
    /\ config = NoConfig
    /\ parser_func = ""
    /\ df = NoTable
    /\ MainIdle

ExtractDatasetSettings ==
    /\ pc = "extract_dataset_settings"
    /\ LET r == extract_dataset_settings(request_loader) IN
       /\ dataset_settings' = IF IsRaised(r) THEN dataset_settings ELSE r
       /\ exception' = IF IsRaised(r) THEN r.exception ELSE ""
    /\ pc' = "settings_done"
    /\ UNCHANGED mainVars
    /\ UNCHANGED <<request_loader, filepath, extra_metadata, rows,
                   all_requests, files, listing, config, parser_func, df>>

NextSettings == ExtractDatasetSettings

SpecSettings == InitSettings /\ [][NextSettings]_vars

----------------------------------------------------------------------------
(* Axis resolution, lines 97-131 (repeated verbatim at lines 242-275) *)

\* the largest integer float() converts: sys.float_info.max, about 1.8e308,
\* in Python, where an int has no largest value; scaled down to the model's
\* 32-bit integers
FloatMax == 1000000

\* float(v): a number as it is, a string of digits as its value; any other
\* string raises ValueError, a list or dict TypeError, and an int beyond the
\* range of a float OverflowError
Float(v) ==
    CASE v.kind = "num" -> IF v.num > FloatMax THEN Raised("OverflowError")
                           ELSE v
      [] v.kind = "str" -> IF IsDigit(v.text) THEN Num(ParseInt(v.text))
                           ELSE Raised("ValueError")
      [] OTHER -> Raised("TypeError")

\* mutant: args.strategy tried first, config.strategy as the fallback
StrategyArgsFirst(benchmark) ==
    LET config_  == Get(benchmark, "config", EmptyDict)
        args_    == Get(benchmark, "args", EmptyDict)
        strategy == Get(args_, "strategy", EmptyDict)
    IN  IF ~Truthy(strategy) THEN Get(config_, "strategy", EmptyDict) ELSE strategy

\* strategy = config.get('strategy', {}); if not strategy: args.get(...)
Strategy(benchmark) ==
    LET config_  == Get(benchmark, "config", EmptyDict)
        args_    == Get(benchmark, "args", EmptyDict)
        strategy == Get(config_, "strategy", EmptyDict)
    IN  IF ~Truthy(strategy) THEN Get(args_, "strategy", EmptyDict) ELSE strategy

\* profile = config.get('profile', {}); if not profile: args.get(...)
Profile(benchmark) ==
    LET config_ == Get(benchmark, "config", EmptyDict)
        args_   == Get(benchmark, "args", EmptyDict)
        profile == Get(config_, "profile", EmptyDict)
    IN  IF ~Truthy(profile) THEN Get(args_, "profile", EmptyDict) ELSE profile

\* `if x is None: x = other`
IfNone(x, other) == IF x = None THEN other ELSE x

\* mutant: the fallback to strategy.streams is missing
ConcurrencyNoStreams(benchmark) ==
    Get(Strategy(benchmark), "max_concurrency", None)

\* concurrency = strategy.get('max_concurrency'), else strategy.get('streams')
Concurrency(benchmark) ==
    IfNone(Get(Strategy(benchmark), "max_concurrency", None),
           Get(Strategy(benchmark), "streams", None))

\* rate_list = profile.get('rate') or []; rate_list[0] when it is a list that
\* is not empty
RateOfList(raw) ==
    IF TruthyValue(raw) /\ raw.kind = "list" THEN raw.items[1] ELSE None

\* the rate of a constant strategy: strategy.rate, else profile.rate[0]
Rate(benchmark) ==
    IfNone(Get(Strategy(benchmark), "rate", None),
           RateOfList(Get(Profile(benchmark), "rate", None)))

\* float(rate) if rate is not None else None
FloatOrNone(rate) == IF rate # None THEN Float(rate) ELSE None

\* mutant: the rate is taken whatever the strategy type is
RpsOfAnyType(benchmark) ==
    FloatOrNone(Rate(benchmark))

\* rps: None, a number, or Raised(..) when float(rate) raises
Rps(benchmark) ==
    LET strategy_type == Get(Strategy(benchmark), "type_",
                             Get(Profile(benchmark), "strategy_type", None))
    IN  IF strategy_type = Str(<<"constant">>)
        THEN FloatOrNone(Rate(benchmark))
        ELSE None

\* dataset settings of an entry, lines 138-143 (and 281-286)
EntrySettings(benchmark) ==
    LET config_        == Get(benchmark, "config", EmptyDict)
        request_config == Get(config_, "requests", EmptyDict)
        loader         == Get(benchmark, "request_loader", EmptyDict)
    IN  extract_dataset_settings(IF Truthy(request_config) THEN request_config
                                 ELSE loader)

\* os.path.basename(path): what follows the last "/"
RECURSIVE basename(_)
basename(t) ==
    LET i == Find(t, "/") IN
    IF i = 0 THEN t ELSE basename(SubSeq(t, i + 1, Len(t)))

----------------------------------------------------------------------------
(* parse_benchmark_metrics *)

\* v == 0 in Python, for a scalar v
IsZero(v) == v.kind = "num" /\ v.num = 0

\* metrics.get(name, {}).get('successful', {}) and the like
Bucket(metrics, name, bucket) ==
    Get(Get(metrics, name, EmptyDict), bucket, EmptyDict)

\* mutant: the total bucket is never consulted
TpsMeanNoFallback(metrics, name) ==
    Get(Bucket(metrics, name, "successful"), "mean", Num(0))

\* lines 148-156: the successful mean, or the total mean when that is 0
TpsMean(metrics, name) ==
    LET mean == Get(Bucket(metrics, name, "successful"), "mean", Num(0)) IN
    IF IsZero(mean)
    THEN Get(Bucket(metrics, name, "total"), "mean", Num(0))
    ELSE mean

\* lines 168-199: the row of one entry
SummaryRow(benchmark, path, concurrency, rps, settings) ==
    LET metrics         == Get(benchmark, "metrics", EmptyDict)
        request_latency == Bucket(metrics, "request_latency", "successful")
        ttft            == Bucket(metrics, "time_to_first_token_ms", "successful")
        itl             == Bucket(metrics, "inter_token_latency_ms", "successful")
        rl_percentiles   == Get(request_latency, "percentiles", EmptyDict)
        ttft_percentiles == Get(ttft, "percentiles", EmptyDict)
        itl_percentiles  == Get(itl, "percentiles", EmptyDict)
    IN  [filename |-> Str(basename(path.text)),
         filepath |-> path,
         concurrency |-> concurrency,
         rps |-> rps,
         prompt_tokens |-> Get(settings, "prompt_tokens", Num(0)),
         prompt_tokens_stdev |-> Get(settings, "prompt_tokens_stdev", Num(0)),
         output_tokens |-> Get(settings, "output_tokens", Num(0)),
         output_tokens_stdev |-> Get(settings, "output_tokens_stdev", Num(0)),
         processor |-> Get(settings, "processor", Str(<<>>)),
         mean_output_tokens_per_second |-> TpsMean(metrics, "output_tokens_per_second"),
         mean_total_tokens_per_second |-> TpsMean(metrics, "tokens_per_second"),
         request_latency_mean |-> Get(request_latency, "mean", Num(0)),
         request_latency_median |-> Get(request_latency, "median", Num(0)),
         ttft_mean |-> Get(ttft, "mean", Num(0)),
         ttft_median |-> Get(ttft, "median", Num(0)),
         itl_mean |-> Get(itl, "mean", Num(0)),
         itl_median |-> Get(itl, "median", Num(0)),
         request_latency_p95 |-> Get(rl_percentiles, "p95", Num(0)),
         request_latency_p99 |-> Get(rl_percentiles, "p99", Num(0)),
         ttft_p95 |-> Get(ttft_percentiles, "p95", Num(0)),
         ttft_p99 |-> Get(ttft_percentiles, "p99", Num(0)),
         itl_p95 |-> Get(itl_percentiles, "p95", Num(0)),
         itl_p99 |-> Get(itl_percentiles, "p99", Num(0)),
         input_sequence_length |->
             Get(Bucket(metrics, "prompt_token_count", "successful"), "mean", Num(0)),
         output_sequence_length |->
             Get(Bucket(metrics, "output_token_count", "successful"), "mean", Num(0))]

\* a result of an extractor: the rows it returns, or the exception it raises
Returns(rs) == [exception |-> "", rows |-> rs]
Raises(e) == [exception |-> e, rows |-> <<>>]

\* mutant: on a key collision the extracted field is kept
WithMetadataKeepingRow(row, metadata) ==
    IF Truthy(metadata) THEN Update(metadata, row) ELSE row

\* lines 202-203: row.update(extra_metadata) when extra_metadata is given
WithMetadata(row, metadata) ==
    IF Truthy(metadata) THEN Update(row, metadata) ELSE row

\* extend by the rows of `rest`, unless `first` or `rest` raised
Extend(first, rest) ==
    IF first.exception # "" THEN first
    ELSE IF rest.exception # "" THEN rest
    ELSE Returns(first.rows \o rest.rows)

\* lines 143-205: the row of an entry that is not skipped, or the exception
\* extract_dataset_settings raised
SummaryOfSettings(benchmark, path, metadata, concurrency, rps, settings) ==
    IF IsRaised(settings) THEN Raises(settings.exception)
    ELSE Returns(<<WithMetadata(SummaryRow(benchmark, path, concurrency, rps,
                                           settings),
                                metadata)>>)

\* mutant: an entry with neither axis value is not skipped
SummaryOfAxisNoSkip(benchmark, path, metadata, concurrency, rps) ==
    IF IsRaised(rps) THEN Raises(rps.exception)
    ELSE SummaryOfSettings(benchmark, path, metadata, concurrency, rps,
                           EntrySettings(benchmark))

\* lines 131-205: float(rate) may raise; no row when the entry is skipped
SummaryOfAxis(benchmark, path, metadata, concurrency, rps) ==
    IF IsRaised(rps) THEN Raises(rps.exception)
    ELSE IF concurrency = None /\ rps = None THEN Returns(<<>>)
    ELSE SummaryOfSettings(benchmark, path, metadata, concurrency, rps,
                           EntrySettings(benchmark))

\* one iteration of the loop of lines 96-205
SummaryOfEntry(benchmark, path, metadata) ==
    SummaryOfAxis(benchmark, path, metadata, Concurrency(benchmark),
                  Rps(benchmark))

\* mutant: the loop ends at the first entry that is skipped (break for
\* continue)
RECURSIVE SummaryOfEntriesBreak(_, _, _)
SummaryOfEntriesBreak(entries, path, metadata) ==
    IF Len(entries) = 0 THEN Returns(<<>>)
    ELSE IF SummaryOfEntry(Head(entries), path, metadata) = Returns(<<>>)
    THEN Returns(<<>>)
    ELSE Extend(SummaryOfEntry(Head(entries), path, metadata),
                SummaryOfEntriesBreak(Tail(entries), path, metadata))

RECURSIVE SummaryOfEntries(_, _, _)
SummaryOfEntries(entries, path, metadata) ==
    IF Len(entries) = 0 THEN Returns(<<>>)
    ELSE Extend(SummaryOfEntry(Head(entries), path, metadata),
                SummaryOfEntries(Tail(entries), path, metadata))

\* json.load of the file at path: Raised(..) when it cannot be read or decoded
Load(fs, path) == IF path \in DOMAIN fs THEN fs[path] ELSE Raised("OSError")

\* mutant: the error of open/json.load is not caught
parse_benchmark_metricsUncaught(fs, path, metadata) ==
    LET data == Load(fs, path) IN
    IF IsRaised(data) THEN Raises(data.exception)
    ELSE LET entries == Get(data, "benchmarks", <<>>) IN
         IF Len(entries) = 0 THEN Returns(<<>>)
         ELSE SummaryOfEntries(entries, path, metadata)

parse_benchmark_metrics(fs, path, metadata) ==
    LET data == Load(fs, path) IN
    IF IsRaised(data) THEN Returns(<<>>)
    ELSE LET entries == Get(data, "benchmarks", <<>>) IN
         IF Len(entries) = 0 THEN Returns(<<>>)
         ELSE SummaryOfEntries(entries, path, metadata)

----------------------------------------------------------------------------
(* parse_individual_requests *)

\* mutant: the top-level start_time is tried first
TestStartTimeTopLevelFirst(benchmark) ==
    LET run_stats       == Get(benchmark, "run_stats", EmptyDict)
        test_start_time == Get(benchmark, "start_time", None)
    IN  IF test_start_time = None THEN Get(run_stats, "start_time", None)
        ELSE test_start_time

\* lines 236-240: run_stats.start_time, else the entry's start_time
TestStartTime(benchmark) ==
    LET run_stats       == Get(benchmark, "run_stats", EmptyDict)
        test_start_time == Get(run_stats, "start_time", None)
    IN  IF test_start_time = None THEN Get(benchmark, "start_time", None)
        ELSE test_start_time

\* request.get('request_start_time', request.get('start_time', 0))
StartTime(request) ==
    Get(request, "request_start_time", Get(request, "start_time", Num(0)))
EndTime(request) ==
    Get(request, "request_end_time", Get(request, "end_time", Num(0)))

\* mutant: the test t > 0 is missing
RelativeAlways(t, test_start_time) ==
    IF t.kind # "num" \/ test_start_time.kind # "num" THEN Raised("TypeError")
    ELSE Num(t.num - test_start_time.num)

\* lines 333-346: t - test_start_time if t > 0 else 0; comparing or
\* subtracting a value that is not a number raises TypeError
Relative(t, test_start_time) ==
    IF t.kind # "num" THEN Raised("TypeError")
    ELSE IF t.num > 0
         THEN IF test_start_time.kind # "num" THEN Raised("TypeError")
              ELSE Num(t.num - test_start_time.num)
         ELSE Num(0)

\* mutant: the dataset columns hold the token counts of the request
RequestDataOfRequestTokens(request, path, concurrency, rps, settings) ==
    [filename |-> Str(basename(path.text)),
     filepath |-> path,
     concurrency |-> concurrency,
     rps |-> rps,
     dataset_prompt_tokens |-> Get(request, "prompt_tokens", Num(0)),
     dataset_output_tokens |-> Get(request, "output_tokens", Num(0)),
     request_id |-> Get(request, "request_id", Str(<<>>)),
     prompt_tokens |-> Get(request, "prompt_tokens", Num(0)),
     output_tokens |-> Get(request, "output_tokens", Num(0)),
     request_latency |-> Get(request, "request_latency", Num(0)),
     time_to_first_token_ms |-> Get(request, "time_to_first_token_ms", Num(0)),
     inter_token_latency_ms |-> Get(request, "inter_token_latency_ms", Num(0)),
     tokens_per_second |-> Get(request, "tokens_per_second", Num(0)),
     output_tokens_per_second |-> Get(request, "output_tokens_per_second", Num(0)),
     first_token_time |-> Get(request, "first_token_time", Num(0)),
     start_time |-> StartTime(request),
     end_time |-> EndTime(request)]

\* lines 307-325: the row of one request, before the relative times
RequestData(request, path, concurrency, rps, settings) ==
    [filename |-> Str(basename(path.text)),
     filepath |-> path,
     concurrency |-> concurrency,
     rps |-> rps,
     dataset_prompt_tokens |-> Get(settings, "prompt_tokens", Num(0)),
     dataset_output_tokens |-> Get(settings, "output_tokens", Num(0)),
     request_id |-> Get(request, "request_id", Str(<<>>)),
     prompt_tokens |-> Get(request, "prompt_tokens", Num(0)),
     output_tokens |-> Get(request, "output_tokens", Num(0)),
     request_latency |-> Get(request, "request_latency", Num(0)),
     time_to_first_token_ms |-> Get(request, "time_to_first_token_ms", Num(0)),
     inter_token_latency_ms |-> Get(request, "inter_token_latency_ms", Num(0)),
     tokens_per_second |-> Get(request, "tokens_per_second", Num(0)),
     output_tokens_per_second |-> Get(request, "output_tokens_per_second", Num(0)),
     first_token_time |-> Get(request, "first_token_time", Num(0)),
     start_time |-> StartTime(request),
     end_time |-> EndTime(request)]

\* lines 328-351: the three relative times of a row, or the exception the
\* first of them raised
WithRelative(request_data, first, start, end) ==
    IF IsRaised(first) THEN Raises(first.exception)
    ELSE IF IsRaised(start) THEN Raises(start.exception)
    ELSE IF IsRaised(end) THEN Raises(end.exception)
    ELSE Returns(<<Update(request_data,
                          [first_token_time_relative |-> first,
                           start_time_relative |-> start,
                           end_time_relative |-> end])>>)

\* lines 328-351 when test_start_time is known
RelativeTimes(request, request_data, test_start_time) ==
    WithRelative(request_data,
                 Relative(Get(request, "first_token_time", Num(0)),
                          test_start_time),
                 Relative(StartTime(request), test_start_time),
                 Relative(EndTime(request), test_start_time))

\* lines 354-355 after the relative times: the metadata of the group merged
\* into the row
RowWithMetadata(r, metadata) ==
    IF r.exception # "" THEN r
    ELSE Returns(<<WithMetadata(r.rows[1], metadata)>>)

\* lines 300-357: one iteration of the loop over the successful requests
RowOfRequest(request, path, concurrency, rps, settings, test_start_time, metadata) ==
    RowWithMetadata(
        IF test_start_time # None
        THEN RelativeTimes(request,
                           RequestData(request, path, concurrency, rps, settings),
                           test_start_time)
        ELSE WithRelative(RequestData(request, path, concurrency, rps, settings),
                          Num(0), Num(0), Num(0)),
        metadata)

RECURSIVE RowsOfRequests(_, _, _, _, _, _, _)
RowsOfRequests(requests, path, concurrency, rps, settings, test_start_time, metadata) ==
    IF Len(requests) = 0 THEN Returns(<<>>)
    ELSE Extend(RowOfRequest(Head(requests), path, concurrency, rps, settings,
                             test_start_time, metadata),
                RowsOfRequests(Tail(requests), path, concurrency, rps, settings,
                               test_start_time, metadata))

\* mutant: the errored requests are read as well
RequestsOfSettingsWithErrored(benchmark, path, metadata, concurrency, rps, settings) ==
    IF IsRaised(settings) THEN Raises(settings.exception)
    ELSE RowsOfRequests(Get(Get(benchmark, "requests", EmptyDict),
                            "successful", <<>>)
                            \o Get(Get(benchmark, "requests", EmptyDict),
                                   "errored", <<>>),
                        path, concurrency, rps, settings,
                        TestStartTime(benchmark), metadata)

\* lines 281-357: the rows of the successful requests of an entry, or the
\* exception extract_dataset_settings raised
RequestsOfSettings(benchmark, path, metadata, concurrency, rps, settings) ==
    IF IsRaised(settings) THEN Raises(settings.exception)
    ELSE RowsOfRequests(Get(Get(benchmark, "requests", EmptyDict),
                            "successful", <<>>),
                        path, concurrency, rps, settings,
                        TestStartTime(benchmark), metadata)

\* lines 275-357: float(rate) may raise; no row when the entry is skipped
RequestsOfAxis(benchmark, path, metadata, concurrency, rps) ==
    IF IsRaised(rps) THEN Raises(rps.exception)
    ELSE IF concurrency = None /\ rps = None THEN Returns(<<>>)
    ELSE RequestsOfSettings(benchmark, path, metadata, concurrency, rps,
                            EntrySettings(benchmark))

\* one iteration of the loop of lines 235-357
RequestsOfEntry(benchmark, path, metadata) ==
    RequestsOfAxis(benchmark, path, metadata, Concurrency(benchmark),
                   Rps(benchmark))

RECURSIVE RequestsOfEntries(_, _, _)
RequestsOfEntries(entries, path, metadata) ==
    IF Len(entries) = 0 THEN Returns(<<>>)
    ELSE Extend(RequestsOfEntry(Head(entries), path, metadata),
                RequestsOfEntries(Tail(entries), path, metadata))

parse_individual_requests(fs, path, metadata) ==
    LET data == Load(fs, path) IN
    IF IsRaised(data) THEN Returns(<<>>)
    ELSE LET entries == Get(data, "benchmarks", <<>>) IN
         IF Len(entries) = 0 THEN Returns(<<>>)
         ELSE RequestsOfEntries(entries, path, metadata)

----------------------------------------------------------------------------
(* Inputs of the extractors: benchmark entries of both schema variants *)

MaxEntries == 2     \* entries of a file drawn from SmallEntries
MaxRequests == 2    \* successful requests of an entry

\* the dicts with key k absent, or present with a value of S
Opt(k, S) == {EmptyDict} \cup {k :> v : v \in S}

Name(s) == Str(<<s>>)

\* config.strategy (v0.4.0) and args.strategy (v0.3.0)
ConfigStrategies ==
    {a @@ b @@ c : a \in Opt("max_concurrency", {Num(4)}),
                   b \in Opt("type_", {Name("constant"), Name("concurrent")}),
                   c \in Opt("rate", {Num(2)})}
ArgsStrategies ==
    {a @@ b @@ c @@ d :
        a \in Opt("max_concurrency", {Num(6)}),
        b \in Opt("streams", {Num(8)}),
        c \in Opt("type_", {Name("constant")}),
        d \in Opt("rate", {Num(3), Str(<<"5">>), Str(<<"x">>)})}

\* config.profile and args.profile
ConfigProfiles ==
    {a @@ b : a \in Opt("strategy_type", {Name("constant"), Name("sweep")}),
              b \in Opt("rate", {PyList(<<>>), PyList(<<Num(7)>>)})}
ArgsProfiles ==
    {a @@ b : a \in Opt("strategy_type", {Name("constant"), Name("synchronous")}),
              b \in Opt("rate", {PyList(<<Num(9), Num(1)>>), None})}

\* an entry's config and args sub-trees
Configs(strategies, profiles, requests) ==
    {a @@ b @@ c : a \in Opt("strategy", strategies),
                   b \in Opt("profile", profiles),
                   c \in Opt("requests", requests)}
Args(strategies, profiles) ==
    {a @@ b : a \in Opt("strategy", strategies), b \in Opt("profile", profiles)}

\* loaders: config.requests of v0.4.0 and request_loader of v0.3.0
ListLoader ==
    [data |-> Str(ListText(<<"prompt_tokens", "=", "5", "1", "2", ",",
                             "output_tokens", "=", "2", "5", "6">>)),
     processor |-> Name("gpt2")]
JsonLoader ==
    [data |-> Str(<<"{", "\"", "prompt_tokens", "\"", ":", "1", "2", "8", ",",
                    "\"", "output_tokens", "\"", ":", "6", "4", "}">>),
     processor |-> Name("llama")]
ConfigRequests == {EmptyDict, ListLoader, [processor |-> Name("gpt2")]}
RequestLoaders ==
    {None, EmptyDict, JsonLoader, ListLoader, [data |-> Str(<<"5", "2">>)],
     [data |-> [kind |-> "dict", num |-> 1, text |-> <<>>]]}

\* metrics: a mean per bucket of the two throughput metrics
Means == {Num(0), Num(42), Num(17)}
Throughputs ==
    {a @@ b : a \in Opt("successful", Opt("mean", Means)),
              b \in Opt("total", Opt("mean", Means \cup {None}))}
Latency(n) ==
    [successful |-> [mean |-> Num(n), median |-> Num(n + 1),
                     percentiles |-> [p95 |-> Num(n + 2), p99 |-> Num(n + 3)]]]
BaseMetrics ==
    [output_tokens_per_second |-> [successful |-> [mean |-> Num(42)]],
     tokens_per_second |-> [successful |-> [mean |-> Num(60)]],
     request_latency |-> Latency(100),
     time_to_first_token_ms |-> Latency(200),
     inter_token_latency_ms |-> Latency(300),
     prompt_token_count |-> [successful |-> [mean |-> Num(500)]],
     output_token_count |-> [successful |-> [mean |-> Num(250)]]]
Metrics ==
    {a @@ b @@ [request_latency |-> Latency(100)] :
        a \in Opt("output_tokens_per_second", Throughputs),
        b \in Opt("tokens_per_second",
                  {EmptyDict, [successful |-> [mean |-> Num(0)],
                               total |-> [mean |-> Num(60)]]})}

\* requests: v0.4.0 request_start_time/request_end_time, v0.3.0
\* start_time/end_time
Requests ==
    {a @@ b @@ c @@ d @@ e @@ [request_id |-> Name("r1"), prompt_tokens |-> Num(30)] :
        a \in Opt("request_start_time", {Num(0), Num(15)}),
        b \in Opt("start_time", {Num(12)}),
        c \in Opt("request_end_time", {Num(25)}),
        d \in Opt("end_time", {Num(0), Num(22)}),
        e \in Opt("first_token_time", {Num(0), Num(13), Num(5), None})}
SmallRequests ==
    {[request_start_time |-> Num(15), request_end_time |-> Num(25),
      first_token_time |-> Num(16), request_id |-> Name("r2")],
     [start_time |-> Num(12), end_time |-> Num(0), request_id |-> Name("r3")]}
StartTimes ==
    {a @@ b : a \in Opt("run_stats", Opt("start_time", {Num(10), Num(20)})),
              b \in Opt("start_time", {Num(11)})}

BaseA == [config |-> [strategy |-> [max_concurrency |-> Num(4)]]]
BaseB == [args |-> [strategy |-> [streams |-> Num(8)]]]
BaseRequests == [requests |-> [successful |-> <<CHOOSE r \in SmallRequests :
                                                    "start_time" \in DOMAIN r>>]]

\* entries that vary the strategy, the profile, the loader, the metrics,
\* and the requests with the run start time
StrategyEntries ==
    {a @@ b @@ BaseRequests :
        a \in Opt("config", Configs(ConfigStrategies, {}, {})),
        b \in Opt("args", Args(ArgsStrategies,
                               {[strategy_type |-> Name("constant"),
                                 rate |-> PyList(<<Num(9), Num(1)>>)]}))}
ProfileEntries ==
    {a @@ b @@ BaseRequests :
        a \in Opt("config", Configs({[max_concurrency |-> Num(4)],
                                     [type_ |-> Name("constant")]},
                                    ConfigProfiles, {})),
        b \in Opt("args", Args({[streams |-> Num(8)]}, ArgsProfiles))}
LoaderEntries ==
    {a @@ b @@ c @@ BaseRequests @@ [metrics |-> BaseMetrics] :
        a \in Opt("config", Configs({[max_concurrency |-> Num(4)]}, {},
                                    ConfigRequests)),
        b \in {EmptyDict, BaseB},
        c \in Opt("request_loader", RequestLoaders)}
MetricEntries ==
    {a @@ b : a \in {BaseA, BaseB}, b \in Opt("metrics", Metrics)}
RequestEntries ==
    {a @@ b @@ c : a \in {BaseB},
                   b \in Opt("requests",
                             Opt("successful",
                                 {<<r>> : r \in Requests} \cup
                                 SeqsUpTo(SmallRequests, MaxRequests))),
                   c \in StartTimes}

\* entries whose requests also hold errored and incomplete requests
FailedEntries ==
    {BaseB @@ [requests |->
                  s @@ [errored |-> <<[request_id |-> Name("r8"),
                                       start_time |-> Num(13)]>>,
                        incomplete |-> <<[request_id |-> Name("r9")]>>]] :
        s \in Opt("successful", SeqsUpTo(SmallRequests, MaxRequests))}

Entries ==
    StrategyEntries \cup ProfileEntries \cup LoaderEntries \cup MetricEntries
    \cup RequestEntries \cup FailedEntries

\* the end-to-end pair of spec section 8, an entry with both axis values, an
\* entry with no axis value, one whose rate is not a number, one with no
\* loader info
SmallEntries ==
    {BaseA @@ BaseRequests,
     BaseB @@ BaseRequests @@ [metrics |-> BaseMetrics],
     [config |-> [strategy |-> [type_ |-> Name("constant"), rate |-> Num(2)],
                  requests |-> ListLoader],
      requests |-> [successful |-> <<[request_start_time |-> Num(15)]>>],
      start_time |-> Num(11)],
     [args |-> [profile |-> [strategy_type |-> Name("synchronous")]]],
     [args |-> [strategy |-> [type_ |-> Name("constant"), rate |-> Str(<<"x">>)]]]}

\* well-formed entries of the two variants whose strategy type is not
\* "constant": v0.4.0 with max_concurrency 4, v0.3.0 with streams 8
VariantAEntries ==
    {[config |-> [strategy |-> [max_concurrency |-> Num(4)] @@ t @@ r] @@ p @@ q]
         @@ [metrics |-> BaseMetrics, start_time |-> Num(11)] :
        t \in Opt("type_", {Name("concurrent")}),
        r \in Opt("rate", {Num(2)}),
        p \in Opt("profile", {[strategy_type |-> Name("sweep")]}),
        q \in Opt("requests", {ListLoader})}
VariantBEntries ==
    {[args |-> [strategy |-> [streams |-> Num(8)] @@ r] @@ p] @@ q
         @@ [metrics |-> BaseMetrics] :
        r \in Opt("rate", {Num(3)}),
        p \in Opt("profile", {[strategy_type |-> Name("synchronous")]}),
        q \in Opt("request_loader", {JsonLoader})}

\* what json.load gives for a file: an object with the entries under
\* 'benchmarks'
Documents ==
    {[benchmarks |-> <<e>>] : e \in Entries} \cup
    {[benchmarks |-> es] : es \in SeqsUpTo(SmallEntries, MaxEntries)} \cup
    {[benchmarks |-> <<x, y>>] : x, y \in VariantAEntries \cup VariantBEntries}
    \cup {EmptyDict}

Paths == {Str(<<"runs", "/", "a.json">>), Str(<<"b.json">>)}
Metadata == {EmptyDict, [gpu |-> Name("H100")],
             [concurrency |-> Num(64), rps |-> Num(1), filename |-> Name("x")],
             [prompt_tokens |-> Num(7)]}

----------------------------------------------------------------------------
(* Specification SpecParse: both extractors on one file *)

InitParse ==
    /\ pc = "parse_benchmark_metrics"
    /\ request_loader = None
    /\ dataset_settings = EmptyDict
    /\ \E path \in Paths, document \in Documents, metadata \in Metadata :
          /\ \/ metadata = EmptyDict /\ path = Str(<<"runs", "/", "a.json">>)
             \/ Get(document, "benchmarks", <<>>) \in SeqsUpTo(SmallEntries, MaxEntries)
          /\ filepath = path
          /\ files = (path :> document)
          /\ listing = <<path>>
          /\ extra_metadata = metadata
    /\ rows = <<>>
    /\ all_requests = <<>>
    /\ exception = ""
    /\ config = NoConfig
    /\ parser_func = ""
    /\ df = NoTable
    /\ MainIdle

ParseBenchmarkMetrics ==
    /\ pc = "parse_benchmark_metrics"
    /\ LET r == parse_benchmark_metrics(files, filepath, extra_metadata) IN
       /\ rows' = r.rows
       /\ exception' = r.exception
    /\ pc' = "parse_individual_requests"
    /\ UNCHANGED mainVars
    /\ UNCHANGED <<request_loader, dataset_settings, filepath, extra_metadata,
                   all_requests, files, listing, config, parser_func, df>>

ParseIndividualRequests ==
    /\ pc = "parse_individual_requests"
    /\ LET r == parse_individual_requests(files, filepath, extra_metadata) IN
       /\ all_requests' = r.rows
       /\ exception' = r.exception
    /\ pc' = "parsed"
    /\ UNCHANGED mainVars
    /\ UNCHANGED <<request_loader, dataset_settings, filepath, extra_metadata,
                   rows, files, listing, config, parser_func, df>>

NextParse == ParseBenchmarkMetrics \/ ParseIndividualRequests

SpecParse == InitParse /\ [][NextParse]_vars

----------------------------------------------------------------------------
(* config.py: the options main reads *)

\* a dict, and not None, a number, a string or a list
IsDict(v) == "kind" \notin DOMAIN v

\* mutant: the configured value is returned as it is
get_axis_modeAsConfigured(cfg) ==
    LET options == Get(cfg, "options", EmptyDict) IN
    IF ~IsDict(options) THEN Raised("AttributeError")
    ELSE Get(options, "axis_mode", Name("concurrency"))

\* get_axis_mode: options.axis_mode, "concurrency" unless it is "rps";
\* options.get raises AttributeError when options is not a dict
get_axis_mode(cfg) ==
    LET options == Get(cfg, "options", EmptyDict) IN
    IF ~IsDict(options) THEN Raised("AttributeError")
    ELSE LET axis_mode == Get(options, "axis_mode", Name("concurrency")) IN
         IF axis_mode \notin {Name("concurrency"), Name("rps")}
         THEN Name("concurrency") ELSE axis_mode

\* get_color_column: options.color, "dataset_id" by default
get_color_column(cfg) ==
    LET options == Get(cfg, "options", EmptyDict) IN
    IF ~IsDict(options) THEN Raised("AttributeError")
    ELSE Get(options, "color", Name("dataset_id"))

\* [float(level) for level in levels]: the floats, or the exception of the
\* first float that raises
RECURSIVE Floats(_)
Floats(xs) ==
    IF Len(xs) = 0 THEN [exception |-> "", items |-> <<>>]
    ELSE LET x == Float(Head(xs)) IN
         IF IsRaised(x) THEN [exception |-> x.exception, items |-> <<>>]
         ELSE LET rest == Floats(Tail(xs)) IN
              IF rest.exception # "" THEN rest
              ELSE [exception |-> "", items |-> <<x>> \o rest.items]

\* the elements `for level in levels` visits: those of a list, the
\* characters of a string; a number is not iterable (TypeError)
Iterate(levels) ==
    CASE levels.kind = "list" -> [exception |-> "", items |-> levels.items]
      [] levels.kind = "str"  ->
             [exception |-> "",
              items |-> [i \in DOMAIN levels.text |-> Str(<<levels.text[i]>>)]]
      [] OTHER -> [exception |-> "TypeError", items |-> <<>>]

\* lines 78-81 and 99-102: ValueError and TypeError give None, any other
\* exception escapes
FloatsOrNone(fs) ==
    IF fs.exception \in {"ValueError", "TypeError"} THEN None
    ELSE IF fs.exception # "" THEN Raised(fs.exception)
    ELSE PyList(fs.items)

\* lines 74-83 and 95-104: the list of floats, or None when the option is
\* missing or falsy
LevelsOption(cfg, key) ==
    LET options == Get(cfg, "options", EmptyDict) IN
    IF ~IsDict(options) THEN Raised("AttributeError")
    ELSE LET levels == Get(options, key, None) IN
         IF ~TruthyValue(levels) THEN None
         ELSE LET it == Iterate(levels) IN
              IF it.exception # "" THEN None
              ELSE FloatsOrNone(Floats(it.items))

get_concurrency_levels(cfg) == LevelsOption(cfg, "concurrency_levels")
get_rps_levels(cfg) == LevelsOption(cfg, "rps_levels")

----------------------------------------------------------------------------
(* load_data_from_config *)

\* a pattern matches a path symbol by symbol, "*" standing for any one name
Matches(pattern, path) ==
    /\ Len(pattern.text) = Len(path.text)
    /\ \A i \in 1..Len(path.text) :
          pattern.text[i] = "*" \/ pattern.text[i] = path.text[i]

\* glob(pattern): the existing paths that match, in directory order
glob(dir, pattern) == SelectSeq(dir, LAMBDA path : Matches(pattern, path))

\* mutant: a path that an earlier pattern matched is not added again
RECURSIVE ExpandPatternsOnce(_, _)
ExpandPatternsOnce(dir, file_patterns) ==
    IF Len(file_patterns) = 0 THEN <<>>
    ELSE LET n       == Len(file_patterns)
             earlier == ExpandPatternsOnce(dir, SubSeq(file_patterns, 1, n - 1))
         IN  earlier \o SelectSeq(glob(dir, file_patterns[n]),
                                  LAMBDA path :
                                      \A i \in DOMAIN earlier : earlier[i] # path)

\* lines 379-381: files.extend(glob(pattern)) for every pattern
RECURSIVE ExpandPatterns(_, _)
ExpandPatterns(dir, file_patterns) ==
    IF Len(file_patterns) = 0 THEN <<>>
    ELSE glob(dir, Head(file_patterns))
             \o ExpandPatterns(dir, Tail(file_patterns))

\* parser_func(filepath, extra_metadata)
CallParser(func, fs, path, metadata) ==
    IF func = "parse_benchmark_metrics"
    THEN parse_benchmark_metrics(fs, path, metadata)
    ELSE parse_individual_requests(fs, path, metadata)

\* lines 386-389: all_data.extend(parser_func(filepath, extra_metadata))
RECURSIVE ParseFiles(_, _, _, _)
ParseFiles(func, fs, paths, metadata) ==
    IF Len(paths) = 0 THEN Returns(<<>>)
    ELSE Extend(CallParser(func, fs, Head(paths), metadata),
                ParseFiles(func, fs, Tail(paths), metadata))

\* mutant: the rows of the later groups come first
RECURSIVE LoadGroupsReversed(_, _, _, _)
LoadGroupsReversed(func, fs, dir, groups) ==
    IF Len(groups) = 0 THEN Returns(<<>>)
    ELSE LET data_group == Head(groups)
             metadata   == Get(data_group, "extra_metadata", EmptyDict)
             patterns   == Get(data_group, "files", <<>>)
         IN  Extend(LoadGroupsReversed(func, fs, dir, Tail(groups)),
                    ParseFiles(func, fs, ExpandPatterns(dir, patterns),
                               metadata))

\* lines 374-389: the loop over config['data']
RECURSIVE LoadGroups(_, _, _, _)
LoadGroups(func, fs, dir, groups) ==
    IF Len(groups) = 0 THEN Returns(<<>>)
    ELSE LET data_group == Head(groups)
             metadata   == Get(data_group, "extra_metadata", EmptyDict)
             patterns   == Get(data_group, "files", <<>>)
         IN  Extend(ParseFiles(func, fs, ExpandPatterns(dir, patterns),
                               metadata),
                    LoadGroups(func, fs, dir, Tail(groups)))

\* pd.DataFrame(all_data): the columns are the keys of all the rows, a row
\* has None (NaN) in the columns it has no key for
DataFrame(all_data) ==
    LET columns == UNION {DOMAIN all_data[i] : i \in DOMAIN all_data} IN
    [columns |-> columns,
     rows |-> [i \in DOMAIN all_data |->
                  [c \in columns |-> Get(all_data[i], c, None)]]]

\* the table, or the exception an extractor raised (table |-> NoTable then)
TableOf(r) ==
    [exception |-> r.exception,
     table |-> IF r.exception = "" THEN DataFrame(r.rows) ELSE NoTable]

load_data_from_config(cfg, func, fs, dir) ==
    TableOf(LoadGroups(func, fs, dir, cfg.data))

----------------------------------------------------------------------------
(* create_dataset_identifier and filter_data_by_levels *)

\* the dtype pandas gives a column: object when it holds a string, float64
\* when it holds numbers and NaN, int64 when it holds numbers only
Dtype(table, c) ==
    IF \E i \in DOMAIN table.rows : table.rows[i][c].kind \notin {"num", "none"}
    THEN "object"
    ELSE IF \E i \in DOMAIN table.rows : table.rows[i][c].kind = "none"
    THEN "float64" ELSE "int64"

\* astype(str) of one value of a column of that dtype
AsStr(v, dtype) ==
    CASE v.kind = "none" -> <<"nan">>
      [] v.kind = "str"  -> v.text
      [] v.kind = "num"  -> IF dtype = "float64"
                            THEN Decimal(v.num) \o <<".", "0">>
                            ELSE Decimal(v.num)
      [] OTHER -> <<"?">>

\* mutant: the two columns are converted to strings in place
WithDatasetIdInPlace(table, a, b) ==
    [columns |-> table.columns \cup {"dataset_id"},
     rows |-> [i \in DOMAIN table.rows |->
                  Update(table.rows[i],
                         (a :> Str(AsStr(table.rows[i][a], Dtype(table, a))))
                         @@ (b :> Str(AsStr(table.rows[i][b], Dtype(table, b))))
                         @@ [dataset_id |->
                             Str(AsStr(table.rows[i][a], Dtype(table, a))
                                 \o <<"-">>
                                 \o AsStr(table.rows[i][b], Dtype(table, b)))])]]

\* df[a].astype(str) + '-' + df[b].astype(str) as the column dataset_id
WithDatasetId(table, a, b) ==
    [columns |-> table.columns \cup {"dataset_id"},
     rows |-> [i \in DOMAIN table.rows |->
                  Update(table.rows[i],
                         [dataset_id |->
                             Str(AsStr(table.rows[i][a], Dtype(table, a))
                                 \o <<"-">>
                                 \o AsStr(table.rows[i][b], Dtype(table, b)))])]]

\* mutant: an identifier the table already has is extended, not replaced
create_dataset_identifierAppending(table) ==
    IF "dataset_id" \in table.columns
    THEN WithDatasetId(table, "dataset_id", "output_tokens")
    ELSE IF "prompt_tokens" \in table.columns
    THEN WithDatasetId(table, "prompt_tokens", "output_tokens")
    ELSE table

create_dataset_identifier(table) ==
    IF "prompt_tokens" \in table.columns
    THEN WithDatasetId(table, "prompt_tokens", "output_tokens")
    ELSE IF "dataset_prompt_tokens" \in table.columns
    THEN WithDatasetId(table, "dataset_prompt_tokens", "dataset_output_tokens")
    ELSE table

\* mutant: only the first level is compared
IsInFirst(v, levels) ==
    v.kind = "num" /\ Len(levels.items) > 0 /\ levels.items[1] = v

\* Series.isin(levels) for one value: equal, as a number, to one of the levels
IsIn(v, levels) ==
    v.kind = "num" /\ \E i \in DOMAIN levels.items : levels.items[i] = v

\* mutant: without levels no row is kept
filter_data_by_levelsNoLevels(table, axis_mode, levels) ==
    IF levels = None THEN [columns |-> table.columns, rows |-> <<>>]
    ELSE LET field == IF axis_mode = Name("concurrency") THEN "concurrency"
                      ELSE "rps"
         IN  IF field \notin table.columns THEN table
             ELSE [columns |-> table.columns,
                   rows |-> SelectSeq(table.rows,
                                      LAMBDA r : IsIn(r[field], levels))]

filter_data_by_levels(table, axis_mode, levels) ==
    IF levels = None THEN table
    ELSE LET field == IF axis_mode = Name("concurrency") THEN "concurrency"
                      ELSE "rps"
         IN  IF field \notin table.columns THEN table
             ELSE [columns |-> table.columns,
                   rows |-> SelectSeq(table.rows,
                                      LAMBDA r : IsIn(r[field], levels))]

----------------------------------------------------------------------------
(* Inputs of load_data_from_config: a directory of result files and a       *)
(* configuration                                                           *)

MaxGroups == 2      \* data groups of a configuration
MaxPatterns == 2    \* glob patterns of a data group

PathA == Str(<<"runs", "/", "a.json">>)
PathB == Str(<<"runs", "/", "b.json">>)

\* a.json: the two variants with concurrency 4 and 8, and an entry with no
\* axis value; b.json: constant-rate runs
FileA ==
    [benchmarks |->
        <<BaseA @@ BaseRequests @@ [metrics |-> BaseMetrics],
          [args |-> [profile |-> [strategy_type |-> Name("synchronous")]]],
          BaseB @@ [request_loader |-> JsonLoader,
                    run_stats |-> [start_time |-> Num(10)],
                    requests |-> [successful |->
                        <<[start_time |-> Num(12), end_time |-> Num(22),
                           request_id |-> Name("r1"),
                           prompt_tokens |-> Num(30), output_tokens |-> Num(7)],
                          [start_time |-> Num(14), end_time |-> Num(24),
                           request_id |-> Name("r2")]>>]]>>]
FileB ==
    [benchmarks |->
        <<[config |-> [strategy |-> [type_ |-> Name("constant"), rate |-> Num(2)],
                       requests |-> ListLoader],
           start_time |-> Num(11)] @@ BaseRequests,
          [args |-> [strategy |-> [max_concurrency |-> Num(1)],
                     profile |-> [strategy_type |-> Name("constant"),
                                  rate |-> PyList(<<Num(8)>>)]]]
              @@ BaseRequests>>]
\* no file at all, the two files, and the two with an a.json that does not
\* decode or that cannot be opened
FileSystems ==
    {<<>>, (PathA :> FileA) @@ (PathB :> FileB),
     (PathA :> Raised("JSONDecodeError")) @@ (PathB :> FileB),
     (PathA :> Raised("PermissionError")) @@ (PathB :> FileB)}

\* the orders a directory can list a set of paths in
Orders(S) ==
    {o \in [1..Cardinality(S) -> S] : \A p \in S : \E i \in DOMAIN o : o[i] = p}

Patterns == {Str(<<"runs", "/", "*">>), PathA,
             Str(<<"runs", "/", "none.json">>)}
GroupMetadata == {[gpu |-> Name("H100")], [gpu |-> Name("A100"), tp |-> Num(2)]}

\* groups: every list of patterns without metadata, and one pattern with
\* each metadata
Groups ==
    Opt("files", SeqsUpTo(Patterns, MaxPatterns)) \cup
    {[files |-> <<Str(<<"runs", "/", "*">>)>>, extra_metadata |-> m] :
        m \in GroupMetadata}

\* the groups that configurations of several groups are made of
SmallGroups ==
    {[files |-> <<Str(<<"runs", "/", "*">>)>>],
     [files |-> <<PathA>>, extra_metadata |-> [gpu |-> Name("H100")]],
     [files |-> <<PathB, Str(<<"runs", "/", "none.json">>)>>,
      extra_metadata |-> [gpu |-> Name("A100"), tp |-> Num(2)]]}

LevelLists ==
    {PyList(<<>>), PyList(<<Num(2), Num(8)>>), PyList(<<Num(4)>>),
     PyList(<<Str(<<"8">>), Num(1)>>), PyList(<<Num(3)>>),
     PyList(<<Num(4), Str(<<"x">>)>>)}
Options ==
    {a @@ b @@ c : a \in Opt("axis_mode", {Name("concurrency"), Name("rps"),
                                           Name("latency")}),
                   b \in Opt("concurrency_levels", LevelLists),
                   c \in Opt("rps_levels", {PyList(<<Num(2), Num(9)>>)})}

\* configurations: one group, lists of groups, and every set of options for
\* one group that takes all the files
Configurations ==
    {[data |-> <<g>>] : g \in Groups} \cup
    {[data |-> gs] : gs \in SeqsUpTo(SmallGroups, MaxGroups)} \cup
    {[data |-> <<[files |-> <<Str(<<"runs", "/", "*">>)>>]>>] @@ o :
        o \in Opt("options", Options)}

----------------------------------------------------------------------------
(* Specification SpecLoad: main's loading of one table, lines 91-103 for    *)
(* the summary table and lines 125-137 for the request table                *)

InitLoad ==
    /\ pc = "load_data_from_config"
    /\ request_loader = None
    /\ dataset_settings = EmptyDict
    /\ filepath = Str(<<>>)
    /\ extra_metadata = EmptyDict
    /\ rows = <<>>
    /\ all_requests = <<>>
    /\ exception = ""
    /\ files \in FileSystems
    /\ listing \in Orders(DOMAIN files)
    /\ config \in Configurations
    /\ parser_func \in {"parse_benchmark_metrics", "parse_individual_requests"}
    /\ df = NoTable
    /\ MainIdle

\* mutant: the concurrency levels whatever the axis mode
ConfiguredLevelsOfConcurrency(cfg) ==
    IF get_axis_mode(cfg) = Name("concurrency") THEN get_concurrency_levels(cfg)
    ELSE get_concurrency_levels(cfg)

\* the levels main passes to filter_data_by_levels for the axis mode
ConfiguredLevels(cfg) ==
    IF get_axis_mode(cfg) = Name("concurrency") THEN get_concurrency_levels(cfg)
    ELSE get_rps_levels(cfg)

\* df = load_data_from_config(cfg, parser_func); an exception ends the
\* loading of this table, and so does an empty table
LoadDataFromConfig ==
    /\ pc = "load_data_from_config"
    /\ \E r \in {load_data_from_config(config, parser_func, files, listing)} :
       /\ df' = r.table
       /\ exception' = r.exception
       /\ pc' = IF r.exception # "" THEN "load_failed"
                ELSE IF Len(r.table.rows) = 0 THEN "no_data"
                ELSE "create_dataset_identifier"
    /\ UNCHANGED mainVars
    /\ UNCHANGED <<request_loader, dataset_settings, filepath, extra_metadata,
                   rows, all_requests, files, listing, config, parser_func>>

CreateDatasetIdentifier ==
    /\ pc = "create_dataset_identifier"
    /\ df' = create_dataset_identifier(df)
    /\ pc' = "filter_data_by_levels"
    /\ UNCHANGED mainVars
    /\ UNCHANGED <<request_loader, dataset_settings, filepath, extra_metadata,
                   rows, all_requests, exception, files, listing, config,
                   parser_func>>

FilterDataByLevels ==
    /\ pc = "filter_data_by_levels"
    /\ df' = filter_data_by_levels(df, get_axis_mode(config),
                                   ConfiguredLevels(config))
    /\ pc' = "loaded"
    /\ UNCHANGED mainVars
    /\ UNCHANGED <<request_loader, dataset_settings, filepath, extra_metadata,
                   rows, all_requests, exception, files, listing, config,
                   parser_func>>

NextLoad == LoadDataFromConfig \/ CreateDatasetIdentifier \/ FilterDataByLevels

SpecLoad == InitLoad /\ [][NextLoad]_vars

----------------------------------------------------------------------------
(* config.py: load_config *)

\* load_config: the dict of the YAML file; FileNotFoundError when the path
\* does not exist, the exception of open or yaml.safe_load, TypeError from
\* `'data' not in config` when the file is empty (config is None) or holds a
\* number, ValueError when the dict has no key data
load_config(file) ==
    IF ~file.exists THEN Raised("FileNotFoundError")
    ELSE IF IsRaised(file.content) THEN file.content
    ELSE IF ~IsDict(file.content) THEN Raised("TypeError")
    ELSE IF "data" \notin DOMAIN file.content THEN Raised("ValueError")
    ELSE file.content

----------------------------------------------------------------------------
(* visualizations.py: what a chart function returns is a placeholder        *)
(* paragraph, the markup of a figure, or the exception it raises            *)

Placeholder == Str(<<"<p>">>)
Figure == Str(<<"<div>">>)

\* df.empty: no row or no column
IsEmpty(table) == Len(table.rows) = 0 \/ table.columns = {}

\* color_col in df.columns
HasColumn(table, c) ==
    c.kind = "str" /\ Len(c.text) = 1 /\ c.text[1] \in table.columns

\* the values of column c in the rows
Values(rs, c) == {rs[i][c] : i \in DOMAIN rs}

\* dropna()
NotNa(S) == {v \in S : v.kind # "none"}

\* sorted(series.unique()) raises TypeError: unique() on an unhashable value,
\* `<` between a string and a number or NaN
SortedRaises(S) ==
    \/ \E v \in S : v.kind = "list"
    \/ \E a, b \in S : a.kind = "str" /\ b.kind \in {"num", "none"}

\* df[df[c] == group] for the groups of column c: a NaN equals nothing
InGroups(rs, c) == SelectSeq(rs, LAMBDA r : r[c].kind # "none")

\* lines 116-129 and 232-245: the (group, x value) means of value_col
GroupedChart(table, value_col, color, x_field) ==
    IF ~HasColumn(table, color) THEN Raised("KeyError")
    ELSE IF SortedRaises(Values(table.rows, color.text[1]))
    THEN Raised("TypeError")
    ELSE IF x_field \notin table.columns THEN Raised("KeyError")
    ELSE IF \E g \in Values(table.rows, color.text[1]) :
               SortedRaises(NotNa(Values(
                   SelectSeq(table.rows, LAMBDA r : r[color.text[1]] = g),
                   x_field)))
    THEN Raised("TypeError")
    ELSE IF NotNa(Values(InGroups(table.rows, color.text[1]), x_field)) = {}
    THEN Placeholder
    ELSE IF value_col \notin table.columns THEN Raised("KeyError")
    ELSE Figure

\* 'concurrency' if axis_mode == 'concurrency' else 'rps'
XField(axis_mode) ==
    IF axis_mode = Name("concurrency") THEN "concurrency" ELSE "rps"

create_throughput_chart(table, color, axis_mode) ==
    IF IsEmpty(table) THEN Placeholder
    ELSE GroupedChart(table, "mean_output_tokens_per_second", color,
                      XField(axis_mode))

create_latency_chart(table, metric_col, color, axis_mode) ==
    IF IsEmpty(table) \/ metric_col \notin table.columns THEN Placeholder
    ELSE GroupedChart(table, metric_col, color, XField(axis_mode))

\* lines 334-341 and 430-437: one histogram for each (level, group) that has
\* a value
Histograms(table, value_col, color, level_field) ==
    IF level_field \notin table.columns THEN Raised("KeyError")
    ELSE IF SortedRaises(NotNa(Values(table.rows, level_field)))
    THEN Raised("TypeError")
    ELSE IF NotNa(Values(table.rows, level_field)) = {} THEN Placeholder
    ELSE IF ~HasColumn(table, color) THEN Raised("KeyError")
    ELSE IF SortedRaises(Values(table.rows, color.text[1]))
    THEN Raised("TypeError")
    ELSE IF \E i \in DOMAIN table.rows :
               /\ table.rows[i][level_field].kind # "none"
               /\ table.rows[i][color.text[1]].kind # "none"
               /\ TruthyValue(table.rows[i][value_col])
    THEN Figure
    ELSE Placeholder

create_histogram_deep_dive(table, metric_col, color, axis_mode) ==
    IF IsEmpty(table) \/ metric_col \notin table.columns THEN Placeholder
    ELSE Histograms(table, metric_col, color, XField(axis_mode))

create_token_length_histograms(table, token_col, color, axis_mode) ==
    IF IsEmpty(table) \/ token_col \notin table.columns THEN Placeholder
    ELSE Histograms(table, token_col, color, XField(axis_mode))

\* lines 561-568 and 657-663: the levels of the rows with a valid time;
\* Figure stands for "there are levels to chart"
LevelsOf(valid_data, columns, level_field) ==
    IF Len(valid_data) = 0 THEN Placeholder
    ELSE IF level_field \notin columns THEN Raised("KeyError")
    ELSE IF SortedRaises(NotNa(Values(valid_data, level_field)))
    THEN Raised("TypeError")
    ELSE IF NotNa(Values(valid_data, level_field)) = {} THEN Placeholder
    ELSE Figure

\* lines 573-630: for every level, the counts of every group
RateCharts(valid_data, table, color, level_field) ==
    IF LevelsOf(valid_data, table.columns, level_field) # Figure
    THEN LevelsOf(valid_data, table.columns, level_field)
    ELSE IF ~HasColumn(table, color) THEN Raised("KeyError")
    ELSE IF \E l \in NotNa(Values(valid_data, level_field)) :
               SortedRaises(Values(
                   SelectSeq(valid_data, LAMBDA r : r[level_field] = l),
                   color.text[1]))
    THEN Raised("TypeError")
    ELSE IF Len(InGroups(SelectSeq(valid_data,
                                   LAMBDA r : r[level_field].kind # "none"),
                         color.text[1])) = 0
    THEN Placeholder
    ELSE Figure

\* pd.notna(df[c]) & (df[c] >= 0)
ValidTime(v) == v.kind = "num" /\ v.num >= 0

create_request_rate_chart(table, time_col, color, level_field) ==
    IF time_col \notin table.columns THEN Placeholder
    ELSE RateCharts(SelectSeq(table.rows, LAMBDA r : ValidTime(r[time_col])),
                    table, color, level_field)

\* lines 668-701: a scatter plot for every level; px.scatter(color=color_col)
\* raises ValueError for a column the table does not have
TimelineCharts(valid_data, table, color, level_field) ==
    IF LevelsOf(valid_data, table.columns, level_field) # Figure
    THEN LevelsOf(valid_data, table.columns, level_field)
    ELSE IF ~HasColumn(table, color) THEN Raised("ValueError")
    ELSE Figure

create_ttft_timeline_chart(table, color, level_field) ==
    IF ~({"first_token_time_relative", "time_to_first_token_ms"}
            \subseteq table.columns)
    THEN Placeholder
    ELSE TimelineCharts(
             SelectSeq(table.rows,
                 LAMBDA r : /\ ValidTime(r["first_token_time_relative"])
                            /\ r["time_to_first_token_ms"].kind # "none"),
             table, color, level_field)

\* the first exception of a sequence of results, or the last result
RECURSIVE FirstRaised(_)
FirstRaised(results) ==
    IF Len(results) = 1 \/ IsRaised(Head(results)) THEN Head(results)
    ELSE FirstRaised(Tail(results))

\* the three scheduling charts joined; a placeholder only for an empty table
Joined(results) ==
    IF IsRaised(FirstRaised(results)) THEN FirstRaised(results) ELSE Figure

create_request_scheduling_charts(table, color, axis_mode) ==
    IF IsEmpty(table) THEN Placeholder
    ELSE Joined(<<create_request_rate_chart(table, "start_time_relative",
                                            color, XField(axis_mode)),
                  create_request_rate_chart(table, "end_time_relative",
                                            color, XField(axis_mode)),
                  create_ttft_timeline_chart(table, color,
                                             XField(axis_mode))>>)

----------------------------------------------------------------------------
(* html_generator.py: generate_all_charts *)

\* the metric columns of the twelve latency charts, in the order of the calls
LatencyMetrics ==
    <<"ttft_mean", "ttft_median", "ttft_p95", "ttft_p99",
      "itl_mean", "itl_median", "itl_p95", "itl_p99",
      "request_latency_mean", "request_latency_median",
      "request_latency_p95", "request_latency_p99">>

\* lines 83-139: the charts of the summary table, in the order of the calls
SummaryCharts(table, color, axis_mode) ==
    IF IsEmpty(table) THEN [i \in 1..13 |-> Placeholder]
    ELSE <<create_throughput_chart(table, color, axis_mode)>> \o
         [i \in 1..12 |-> create_latency_chart(table, LatencyMetrics[i],
                                               color, axis_mode)]

\* lines 142-167: the charts of the request table
RequestCharts(table, color, axis_mode) ==
    IF IsEmpty(table) THEN [i \in 1..5 |-> Placeholder]
    ELSE <<create_token_length_histograms(table, "prompt_tokens", color,
                                          axis_mode),
           create_token_length_histograms(table, "output_tokens", color,
                                          axis_mode),
           create_histogram_deep_dive(table, "time_to_first_token_ms",
                                      color, axis_mode),
           create_histogram_deep_dive(table, "inter_token_latency_ms",
                                      color, axis_mode),
           create_request_scheduling_charts(table, color, axis_mode)>>

\* the dict of the charts, or the exception of the first call that raises
ChartsOf(results) ==
    IF IsRaised(FirstRaised(results)) THEN FirstRaised(results)
    ELSE [throughput_chart |-> results[1],
          latency_charts |-> SubSeq(results, 2, 13),
          input_length_chart |-> results[14],
          output_length_chart |-> results[15],
          ttft_deep_dive_chart |-> results[16],
          itl_deep_dive_chart |-> results[17],
          scheduling_chart |-> results[18]]

generate_all_charts(summary, requests, color, axis_mode) ==
    ChartsOf(SummaryCharts(summary, color, axis_mode)
                 \o RequestCharts(requests, color, axis_mode))

----------------------------------------------------------------------------
(* main.py *)

\* lines 106-114 and 143-150: the groups of the color column are listed, or
\* dataset_id becomes the color column when the table has no such column
ColorColumn(table, color) ==
    IF HasColumn(table, color)
    THEN IF SortedRaises(Values(table.rows, color.text[1]))
         THEN Raised("TypeError") ELSE color
    ELSE IF "dataset_id" \in table.columns THEN Name("dataset_id")
    ELSE color

\* what a loading block leaves: the table, the color column, and the
\* exception its try caught
Block(table, color, e) == [df |-> table, color_col |-> color, exception |-> e]

Coloured(table, color, picked) ==
    IF IsRaised(picked) THEN Block(table, color, picked.exception)
    ELSE Block(table, picked, "")

\* lines 97-114 and 131-150: the table is filtered by the levels of the axis
\* mode, then the color column is settled (pick: this block settles it)
Filtered(table, axis_mode, levels, color, pick) ==
    IF IsRaised(levels) THEN Block(table, color, levels.exception)
    ELSE IF ~pick
    THEN Block(filter_data_by_levels(table, axis_mode, levels), color, "")
    ELSE Coloured(filter_data_by_levels(table, axis_mode, levels), color,
                  ColorColumn(filter_data_by_levels(table, axis_mode, levels),
                              color))

\* lines 91-118 and 125-154: one loading block; before is the table the
\* variable holds when the block starts
Loading(r, before, axis_mode, levels, color, pick) ==
    IF r.exception # "" THEN Block(before, color, r.exception)
    ELSE IF IsEmpty(r.table) THEN Block(r.table, color, "")
    ELSE Filtered(create_dataset_identifier(r.table), axis_mode, levels,
                  color, pick)

\* summary_df is None or summary_df.empty
NoData(table) == table = None \/ IsEmpty(table)

\* lines 164-169: an empty DataFrame in the place of None
OrEmpty(table) == IF table = None THEN NoTable ELSE table

----------------------------------------------------------------------------
(* Inputs of main: a command line, a configuration file and a directory of  *)
(* result files                                                            *)

\* a.json with runs that have no successful request
FileNoRequests ==
    [benchmarks |->
        <<BaseA @@ [metrics |-> BaseMetrics],
          BaseB @@ [requests |-> [errored |-> <<[request_id |-> Name("r8")]>>]]>>]

\* a.json with a request whose times are null: parse_individual_requests
\* raises TypeError on it
FileNullTimes ==
    [benchmarks |->
        <<BaseA @@ [metrics |-> BaseMetrics,
                    start_time |-> Num(10),
                    requests |-> [successful |->
                        <<[request_id |-> Name("r7"),
                           request_start_time |-> None,
                           request_end_time |-> None]>>]]>>]

MainFileSystems ==
    {<<>>,
     (PathA :> FileA) @@ (PathB :> FileB),
     (PathA :> Raised("JSONDecodeError")) @@ (PathB :> FileB),
     (PathA :> FileNoRequests),
     (PathA :> FileNoRequests) @@ (PathB :> FileB),
     (PathA :> FileNullTimes)}

\* the data sections: every file in one group, a group with metadata and
\* one without, a group that matches nothing
MainData ==
    {<<[files |-> <<Str(<<"runs", "/", "*">>)>>]>>,
     <<[files |-> <<PathA>>, extra_metadata |-> [gpu |-> Name("H100")]],
       [files |-> <<PathB>>]>>,
     <<[files |-> <<PathA>>, extra_metadata |-> [gpu |-> Name("H100")]],
       [files |-> <<PathB>>, extra_metadata |-> [gpu |-> Name("A100")]]>>,
     <<[files |-> <<Str(<<"runs", "/", "none.json">>)>>]>>}

\* the options sections; None is an `options:` key with nothing under it
MainOptions ==
    {None,
     EmptyDict,
     [axis_mode |-> Name("rps")],
     [axis_mode |-> Name("rps"), concurrency_levels |-> PyList(<<Num(3)>>)],
     [axis_mode |-> Name("latency"), rps_levels |-> PyList(<<Num(3)>>)],
     [axis_mode |-> Name("rps"), rps_levels |-> PyList(<<Num(2)>>),
      concurrency_levels |-> PyList(<<Num(4)>>)],
     [concurrency_levels |-> PyList(<<Num(4)>>)],
     [concurrency_levels |-> PyList(<<Num(3)>>)],
     [concurrency_levels |-> PyList(<<>>)],
     [concurrency_levels |-> PyList(<<Num(4), Num(FloatMax + 1)>>)],
     [color |-> Name("gpu")],
     [color |-> Name("processor")],
     [color |-> Name("model")]}

MainConfigurations ==
    {[data |-> d] : d \in MainData} \cup
    {[data |-> d, options |-> o] : d \in MainData, o \in MainOptions}

ConfigFiles ==
    {NoConfigFile} \cup
    {[exists |-> TRUE, content |-> c] :
        c \in {Raised("PermissionError"), Raised("YAMLError"), None,
               [options |-> EmptyDict]} \cup MainConfigurations}

----------------------------------------------------------------------------
(* Specification SpecMain: one run of main                                  *)

InitMain ==
    /\ pc = "main"
    /\ request_loader = None
    /\ dataset_settings = EmptyDict
    /\ filepath = Str(<<>>)
    /\ extra_metadata = EmptyDict
    /\ rows = <<>>
    /\ all_requests = <<>>
    /\ exception = ""
    /\ files \in MainFileSystems
    /\ listing \in Orders(DOMAIN files)
    /\ config = NoConfig
    /\ parser_func = ""
    /\ df = NoTable
    /\ args \in [summary_only : BOOLEAN, requests_only : BOOLEAN]
    /\ config_file \in ConfigFiles
    /\ summary_df = None
    /\ requests_df = None
    /\ color_col = Str(<<>>)
    /\ charts = EmptyDict
    /\ exit_status = -1

\* what main leaves alone: the inputs, and the variables of the other
\* specifications
mainInputs == <<request_loader, dataset_settings, filepath, extra_metadata,
                rows, all_requests, files, listing, parser_func, df, args,
                config_file>>

\* sys.exit(1)
Exit(status, e) ==
    /\ exit_status' = status
    /\ exception' = e
    /\ pc' = "exited"

\* lines 67-70: the two flags exclude each other
CheckOptions ==
    /\ pc = "main"
    /\ IF args.summary_only /\ args.requests_only
       THEN Exit(1, "")
       ELSE /\ pc' = "load_config"
            /\ UNCHANGED <<exit_status, exception>>
    /\ UNCHANGED <<config, summary_df, requests_df, color_col, charts>>
    /\ UNCHANGED mainInputs

\* lines 75-82, with the handlers of lines 203-210: an exception of
\* load_config, get_axis_mode or get_color_column ends the run with status 1
LoadConfig ==
    /\ pc = "load_config"
    /\ \E cfg \in {load_config(config_file)} :
          IF IsRaised(cfg)
          THEN Exit(1, cfg.exception) /\ UNCHANGED <<config, color_col>>
          ELSE IF IsRaised(get_axis_mode(cfg))
          THEN /\ Exit(1, get_axis_mode(cfg).exception)
               /\ config' = cfg
               /\ UNCHANGED color_col
          ELSE /\ config' = cfg
               /\ color_col' = get_color_column(cfg)
               /\ pc' = "load_summary"
               /\ UNCHANGED <<exit_status, exception>>
    /\ UNCHANGED <<summary_df, requests_df, charts>>
    /\ UNCHANGED mainInputs

\* lines 88-120: the summary table, unless --requests-only; an exception in
\* the block is fatal under --summary-only
LoadSummary ==
    /\ pc = "load_summary"
    /\ IF args.requests_only
       THEN /\ pc' = "load_requests"
            /\ UNCHANGED <<summary_df, color_col, exit_status, exception>>
       ELSE \E b \in {Loading(load_data_from_config(
                                  config, "parse_benchmark_metrics", files,
                                  listing),
                              summary_df, get_axis_mode(config),
                              ConfiguredLevels(config), color_col, TRUE)} :
               /\ summary_df' = b.df
               /\ color_col' = b.color_col
               /\ IF b.exception # "" /\ args.summary_only
                  THEN Exit(1, b.exception)
                  ELSE /\ pc' = "load_requests"
                       /\ exception' = b.exception
                       /\ UNCHANGED exit_status
    /\ UNCHANGED <<config, requests_df, charts>>
    /\ UNCHANGED mainInputs

\* lines 122-156: the request table, unless --summary-only; the color column
\* is settled here only when there is no summary data
LoadRequests ==
    /\ pc = "load_requests"
    /\ IF args.summary_only
       THEN /\ pc' = "check_data"
            /\ UNCHANGED <<requests_df, color_col, exit_status, exception>>
       ELSE \E b \in {Loading(load_data_from_config(
                                  config, "parse_individual_requests", files,
                                  listing),
                              requests_df, get_axis_mode(config),
                              ConfiguredLevels(config), color_col,
                              NoData(summary_df))} :
               /\ requests_df' = b.df
               /\ color_col' = b.color_col
               /\ IF b.exception # "" /\ args.requests_only
                  THEN Exit(1, b.exception)
                  ELSE /\ pc' = "check_data"
                       /\ exception' = b.exception
                       /\ UNCHANGED exit_status
    /\ UNCHANGED <<config, summary_df, charts>>
    /\ UNCHANGED mainInputs

\* lines 158-169: no data at all is fatal; a table that was not loaded
\* becomes an empty DataFrame
CheckData ==
    /\ pc = "check_data"
    /\ IF NoData(summary_df) /\ NoData(requests_df)
       THEN Exit(1, "") /\ UNCHANGED <<summary_df, requests_df>>
       ELSE /\ summary_df' = OrEmpty(summary_df)
            /\ requests_df' = OrEmpty(requests_df)
            /\ pc' = "generate_html_report"
            /\ UNCHANGED <<exit_status, exception>>
    /\ UNCHANGED <<config, color_col, charts>>
    /\ UNCHANGED mainInputs

\* lines 188-198, with the handler of lines 206-210: the charts are made and
\* the report is written; an exception of a chart ends the run with status 1
GenerateHtmlReport ==
    /\ pc = "generate_html_report"
    /\ \E c \in {generate_all_charts(summary_df, requests_df, color_col,
                                     get_axis_mode(config))} :
          IF IsRaised(c)
          THEN Exit(1, c.exception) /\ UNCHANGED charts
          ELSE /\ charts' = c
               /\ exit_status' = 0
               /\ pc' = "exited"
               /\ UNCHANGED exception
    /\ UNCHANGED <<config, summary_df, requests_df, color_col>>
    /\ UNCHANGED mainInputs

NextMain ==
    \/ CheckOptions
    \/ LoadConfig
    \/ LoadSummary
    \/ LoadRequests
    \/ CheckData
    \/ GenerateHtmlReport

SpecMain == InitMain /\ [][NextMain]_vars

----------------------------------------------------------------------------
(* Properties of extract_dataset_settings, under SpecSettings *)

SettingsDone == pc = "settings_done" /\ exception = ""

\* C4: extract_dataset_settings called with a null loader returns exactly
\* {prompt_tokens: 400, prompt_tokens_stdev: 0, output_tokens: 200,
\* output_tokens_stdev: 0, processor: "multiturn"}.
C4_DefaultDatasetSettings ==
    (SettingsDone /\ request_loader = None) =>
        dataset_settings =
            [prompt_tokens |-> Num(400), prompt_tokens_stdev |-> Num(0),
             output_tokens |-> Num(200), output_tokens_stdev |-> Num(0),
             processor |-> Name("multiturn")]

C4_Witness ==
    /\ SettingsDone
    /\ request_loader = None
    /\ dataset_settings.prompt_tokens = Num(400)

\* the token counts whose decimal form the model's inputs contain
Counts == {n \in 0..(10^MaxDigits - 1) : Decimal(n) \in DigitStrings}

\* "k=<n>" for a key k and a count n
Pair(k, n) == <<k, "=">> \o Decimal(n)

\* C6: for a loader whose data is "['k1=v1,k2=v2,...']", the result has
\* prompt_tokens and output_tokens equal to the integer values of those keys
\* in the first list element, both stdevs 0, and the loader's processor.
\* Checked for every list of pairs with distinct keys and digit values:
\* the result is read back from the text "['k1=<n1>,k2=<n2>']".
C6_StringifiedList ==
    SettingsDone =>
        \A k1, k2 \in {"prompt_tokens", "output_tokens", "x"} :
        \A n1, n2 \in Counts :
            ( /\ "data" \in DOMAIN request_loader
              /\ \/ /\ k1 # k2
                    /\ request_loader.data =
                         Str(ListText(Pair(k1, n1) \o <<",">> \o Pair(k2, n2)))
                 \/ /\ k1 = k2 /\ n1 = n2
                    /\ request_loader.data = Str(ListText(Pair(k1, n1))) )
            => LET given == (k1 :> Num(n1)) @@ (k2 :> Num(n2)) IN
               /\ DOMAIN dataset_settings =
                      {"prompt_tokens", "prompt_tokens_stdev", "output_tokens",
                       "output_tokens_stdev", "processor"}
               /\ dataset_settings.prompt_tokens =
                      Get(given, "prompt_tokens", Num(0))
               /\ dataset_settings.output_tokens =
                      Get(given, "output_tokens", Num(0))
               /\ dataset_settings.prompt_tokens_stdev = Num(0)
               /\ dataset_settings.output_tokens_stdev = Num(0)
               /\ dataset_settings.processor =
                      Get(request_loader, "processor", Str(<<>>))

C6_Witness ==
    /\ SettingsDone
    /\ request_loader =
           [data |-> Str(ListText(<<"prompt_tokens", "=", "5", "2", ",",
                                    "output_tokens", "=", "2", "5">>)),
            processor |-> Name("synthetic")]
    /\ dataset_settings.prompt_tokens = Num(52)
    /\ dataset_settings.output_tokens = Num(25)
    /\ dataset_settings.processor = Name("synthetic")

----------------------------------------------------------------------------
(* Properties of the two extractors, under SpecParse *)

\* the entries of the file the extractors are given
TheEntries == Get(Load(files, filepath), "benchmarks", <<>>)

\* parse_benchmark_metrics, resp. parse_individual_requests, has returned
SummaryReturned == pc = "parse_individual_requests" /\ exception = ""
RequestsReturned == pc = "parsed" /\ exception = ""

\* the metadata leaves the two axis fields of a row alone
AxisKept == {"concurrency", "rps"} \cap DOMAIN extra_metadata = {}

\* C1 (as stated): every row of either extractor has exactly one of
\* concurrency and rps non-null.
C1_ExactlyOne ==
    AxisKept =>
        /\ SummaryReturned =>
               \A i \in DOMAIN rows :
                   (rows[i].concurrency = None) # (rows[i].rps = None)
        /\ RequestsReturned =>
               \A i \in DOMAIN all_requests :
                   (all_requests[i].concurrency = None)
                       # (all_requests[i].rps = None)

\* C1 (amended): every row of either extractor has at least one of
\* concurrency and rps non-null; the two are never both null.
C1_NeverBothNull ==
    AxisKept =>
        /\ SummaryReturned =>
               \A i \in DOMAIN rows :
                   ~(rows[i].concurrency = None /\ rows[i].rps = None)
        /\ RequestsReturned =>
               \A i \in DOMAIN all_requests :
                   ~(all_requests[i].concurrency = None
                        /\ all_requests[i].rps = None)

\* a constant-rate entry whose strategy also carries max_concurrency: its
\* request row has both values
C1_Witness ==
    /\ RequestsReturned /\ AxisKept
    /\ Len(TheEntries) = 1 /\ Len(all_requests) = 1
    /\ all_requests[1].concurrency = Num(4)
    /\ all_requests[1].rps = Num(2)

----------------------------------------------------------------------------
(* C2: precedence of the v0.4.0 paths over the v0.3.0 paths.  "The v0.3.0  *)
(* value is used only when the v0.4.0 one is absent" is stated as: where   *)
(* the v0.4.0 path counts as given, deleting the v0.3.0 path from the      *)
(* entry changes nothing in the rows.                                      *)

Without(d, k) == [x \in DOMAIN d \ {k} |-> d[x]]

\* the entry with args.<k> deleted
WithoutArgs(e, k) ==
    IF "args" \in DOMAIN e
    THEN [x \in DOMAIN e |-> IF x = "args" THEN Without(e.args, k) ELSE e[x]]
    ELSE e

\* the request with the v0.3.0 timestamp deleted where the v0.4.0 one is there
WithoutOldTimes(r) ==
    LET r1 == IF "request_start_time" \in DOMAIN r THEN Without(r, "start_time")
              ELSE r
    IN  IF "request_end_time" \in DOMAIN r1 THEN Without(r1, "end_time") ELSE r1

WithoutOldTimesOfEntry(e) ==
    IF "requests" \in DOMAIN e /\ "successful" \in DOMAIN e.requests
    THEN [x \in DOMAIN e |->
             IF x = "requests"
             THEN [y \in DOMAIN e.requests |->
                      IF y = "successful"
                      THEN [i \in DOMAIN e.requests.successful |->
                               WithoutOldTimes(e.requests.successful[i])]
                      ELSE e.requests[y]]
             ELSE e[x]]
    ELSE e

\* config.<k> is present in the entry
Present(e, k) == "config" \in DOMAIN e /\ k \in DOMAIN e.config
\* config.<k> is present and not empty
NonEmpty(e, k) == Present(e, k) /\ Truthy(e.config[k])

\* the entry with every v0.3.0 path deleted whose v0.4.0 path is present
OnlyVariantAWherePresent(e) ==
    LET e1 == IF Present(e, "strategy") THEN WithoutArgs(e, "strategy") ELSE e
        e2 == IF Present(e, "profile") THEN WithoutArgs(e1, "profile") ELSE e1
        e3 == IF Present(e, "requests") THEN Without(e2, "request_loader") ELSE e2
    IN  WithoutOldTimesOfEntry(e3)

\* the same, deleting only where the v0.4.0 value is not empty
OnlyVariantAWhereNonEmpty(e) ==
    LET e1 == IF NonEmpty(e, "strategy") THEN WithoutArgs(e, "strategy") ELSE e
        e2 == IF NonEmpty(e, "profile") THEN WithoutArgs(e1, "profile") ELSE e1
        e3 == IF NonEmpty(e, "requests") THEN Without(e2, "request_loader") ELSE e2
    IN  WithoutOldTimesOfEntry(e3)

FileOf(entries) == (filepath :> [benchmarks |-> entries])

\* C2 (as stated): an entry that carries both paths of a field yields the
\* rows it yields with the v0.3.0 path deleted.
C2_VariantAWhenPresent ==
    LET fs == FileOf([i \in DOMAIN TheEntries |->
                         OnlyVariantAWherePresent(TheEntries[i])])
    IN  /\ pc = "parse_individual_requests" =>
               /\ rows = parse_benchmark_metrics(fs, filepath, extra_metadata).rows
               /\ exception =
                      parse_benchmark_metrics(fs, filepath, extra_metadata).exception
        /\ pc = "parsed" =>
               /\ all_requests =
                      parse_individual_requests(fs, filepath, extra_metadata).rows
               /\ exception =
                      parse_individual_requests(fs, filepath, extra_metadata).exception

\* C2 (amended): an entry whose v0.4.0 value of a field is not empty yields
\* the rows it yields with the v0.3.0 path of that field deleted; of the
\* request timestamps the v0.4.0 one is used whenever its key is present.
C2_VariantAWhenNonEmpty ==
    LET fs == FileOf([i \in DOMAIN TheEntries |->
                         OnlyVariantAWhereNonEmpty(TheEntries[i])])
    IN  /\ pc = "parse_individual_requests" =>
               /\ rows = parse_benchmark_metrics(fs, filepath, extra_metadata).rows
               /\ exception =
                      parse_benchmark_metrics(fs, filepath, extra_metadata).exception
        /\ pc = "parsed" =>
               /\ all_requests =
                      parse_individual_requests(fs, filepath, extra_metadata).rows
               /\ exception =
                      parse_individual_requests(fs, filepath, extra_metadata).exception

\* an entry with config.strategy.max_concurrency and args.strategy.streams:
\* the row has the former
C2_Witness ==
    /\ SummaryReturned /\ AxisKept
    /\ Len(TheEntries) = 1 /\ Len(rows) = 1
    /\ NonEmpty(TheEntries[1], "strategy")
    /\ "args" \in DOMAIN TheEntries[1]
    /\ "strategy" \in DOMAIN TheEntries[1].args
    /\ "streams" \in DOMAIN TheEntries[1].args.strategy
    /\ "max_concurrency" \in DOMAIN TheEntries[1].config.strategy
    /\ rows[1].concurrency = TheEntries[1].config.strategy.max_concurrency
    /\ rows[1].concurrency # TheEntries[1].args.strategy.streams

----------------------------------------------------------------------------
(* C3, C5, C7, C9 *)

\* C3: for a file whose two entries are a well-formed v0.4.0 entry with
\* config.strategy.max_concurrency = 4 and a well-formed v0.3.0 entry with
\* args.strategy.streams = 8, neither of strategy type "constant",
\* parse_benchmark_metrics returns exactly two rows, in entry order, with
\* concurrency 4 and 8 and rps null in both.
C3_EndToEnd ==
    ( /\ pc = "parse_individual_requests" /\ AxisKept
      /\ Len(TheEntries) = 2
      /\ \A i \in 1..2 : TheEntries[i] \in VariantAEntries \cup VariantBEntries )
    => /\ exception = ""
       /\ Len(rows) = 2
       /\ \A i \in 1..2 :
             /\ rows[i].concurrency =
                    IF TheEntries[i] \in VariantAEntries THEN Num(4) ELSE Num(8)
             /\ rows[i].rps = None

C3_Witness ==
    /\ SummaryReturned /\ AxisKept
    /\ Len(TheEntries) = 2
    /\ TheEntries[1] \in VariantAEntries
    /\ TheEntries[2] \in VariantBEntries
    /\ Len(rows) = 2
    /\ rows[1].concurrency = Num(4) /\ rows[2].concurrency = Num(8)
    /\ rows[1].rps = None /\ rows[2].rps = None

\* the entry has no loader info: neither config.requests nor request_loader
NoLoaderInfo(e) == ~Present(e, "requests") /\ "request_loader" \notin DOMAIN e

\* C5 (as stated): the rows of an entry with no loader info at all carry the
\* default dataset settings: prompt_tokens 400, output_tokens 200, stdevs 0,
\* processor "multiturn" (dataset_prompt_tokens 400 and
\* dataset_output_tokens 200 on request rows).
C5_DefaultsWithoutLoader ==
    (Len(TheEntries) = 1 /\ NoLoaderInfo(TheEntries[1])) =>
        /\ SummaryReturned =>
               \A i \in DOMAIN rows :
                   /\ rows[i].prompt_tokens = Num(400)
                   /\ rows[i].output_tokens = Num(200)
                   /\ rows[i].prompt_tokens_stdev = Num(0)
                   /\ rows[i].output_tokens_stdev = Num(0)
                   /\ rows[i].processor = Name("multiturn")
        /\ RequestsReturned =>
               \A i \in DOMAIN all_requests :
                   /\ all_requests[i].dataset_prompt_tokens = Num(400)
                   /\ all_requests[i].dataset_output_tokens = Num(200)

\* the mean of a bucket of a metric of the entry, Num(0) when it is absent
MeanOf(e, name, bucket) ==
    IF /\ "metrics" \in DOMAIN e
       /\ name \in DOMAIN e.metrics
       /\ bucket \in DOMAIN e.metrics[name]
       /\ "mean" \in DOMAIN e.metrics[name][bucket]
    THEN e.metrics[name][bucket].mean
    ELSE Num(0)

\* C7: in every summary row, mean_output_tokens_per_second (resp.
\* mean_total_tokens_per_second) is the metric's successful.mean when that
\* is not 0, and the metric's total.mean when successful.mean is 0 or absent.
C7_ZeroSuccessfulFallback ==
    (SummaryReturned /\ Len(TheEntries) = 1 /\ Len(rows) = 1) =>
        LET e == TheEntries[1]
            Expected(name) ==
                IF MeanOf(e, name, "successful") # Num(0)
                THEN MeanOf(e, name, "successful")
                ELSE MeanOf(e, name, "total")
        IN  /\ rows[1].mean_output_tokens_per_second =
                   Expected("output_tokens_per_second")
            /\ rows[1].mean_total_tokens_per_second =
                   Expected("tokens_per_second")

C7_Witness ==
    /\ SummaryReturned /\ Len(TheEntries) = 1 /\ Len(rows) = 1
    /\ MeanOf(TheEntries[1], "output_tokens_per_second", "successful") = Num(0)
    /\ MeanOf(TheEntries[1], "output_tokens_per_second", "total") = Num(42)
    /\ rows[1].mean_output_tokens_per_second = Num(42)

\* the run start time of an entry, None when it is not known
RunStart(e) ==
    IF "run_stats" \in DOMAIN e /\ "start_time" \in DOMAIN e.run_stats
    THEN e.run_stats.start_time
    ELSE IF "start_time" \in DOMAIN e THEN e.start_time ELSE None

\* the relative time the claim gives for an absolute time
Filled(absolute, run_start) ==
    IF run_start # None /\ absolute.kind = "num" /\ absolute.num > 0
    THEN Num(absolute.num - run_start.num)
    ELSE Num(0)

\* C9: in every request row, each of start_time_relative, end_time_relative
\* and first_token_time_relative is (absolute value - run start time) when
\* the run start time is known and the absolute value is strictly positive,
\* and 0 otherwise; it is never null.
C9_RelativeTimeFill ==
    (RequestsReturned /\ Len(TheEntries) = 1) =>
        \A i \in DOMAIN all_requests :
            LET r  == all_requests[i]
                t0 == RunStart(TheEntries[1])
            IN  /\ r.start_time_relative = Filled(r.start_time, t0)
                /\ r.end_time_relative = Filled(r.end_time, t0)
                /\ r.first_token_time_relative = Filled(r.first_token_time, t0)
                /\ r.start_time_relative # None
                /\ r.end_time_relative # None
                /\ r.first_token_time_relative # None

\* a request whose start time is 0 in a run whose start time is known, and
\* whose end time is positive
C9_Witness ==
    /\ RequestsReturned /\ Len(TheEntries) = 1 /\ Len(all_requests) = 1
    /\ RunStart(TheEntries[1]) = Num(10)
    /\ all_requests[1].start_time = Num(0)
    /\ all_requests[1].start_time_relative = Num(0)
    /\ all_requests[1].end_time = Num(25)
    /\ all_requests[1].end_time_relative = Num(15)

----------------------------------------------------------------------------
(* Properties of the loading and filtering of a table, under SpecLoad *)

\* the column filter_data_by_levels filters on
AxisField == IF get_axis_mode(config) = Name("concurrency") THEN "concurrency"
             ELSE "rps"

\* the numbers of the levels main passes
LevelNumbers ==
    {ConfiguredLevels(config).items[i].num :
        i \in DOMAIN ConfiguredLevels(config).items}

\* the positions of the rows of a table whose axis value is one of the levels
Members(table) ==
    {i \in DOMAIN table.rows :
        /\ table.rows[i][AxisField].kind = "num"
        /\ table.rows[i][AxisField].num \in LevelNumbers}

\* the j-th smallest element of a set of positions
Nth(S, j) == CHOOSE i \in S : Cardinality({k \in S : k < i}) = j - 1

\* C8: for a non-null levels, filter_data_by_levels returns exactly the rows
\* of the table whose axis field is a member of levels, in their original
\* relative order, with no row added, duplicated or altered.
C8_LevelFiltering ==
    [][ ( /\ pc = "filter_data_by_levels"
          /\ ConfiguredLevels(config) # None
          /\ AxisField \in df.columns )
        => /\ df'.columns = df.columns
           /\ Len(df'.rows) = Cardinality(Members(df))
           /\ \A j \in DOMAIN df'.rows : df'.rows[j] = df.rows[Nth(Members(df), j)]
      ]_vars

\* the request rows of the run with concurrency 8 are kept, in their order,
\* by the levels [2, 8]; the rows of the other runs are dropped
C8_Witness ==
    /\ pc = "loaded"
    /\ parser_func = "parse_individual_requests"
    /\ DOMAIN files = {PathA, PathB}
    /\ listing = <<PathB, PathA>>
    /\ ConfiguredLevels(config) = PyList(<<Num(2), Num(8)>>)
    /\ AxisField = "concurrency"
    /\ Len(df.rows) = 2
    /\ df.rows[1].concurrency = Num(8) /\ df.rows[1].request_id = Name("r1")
    /\ df.rows[2].concurrency = Num(8) /\ df.rows[2].request_id = Name("r2")

\* load_data_from_config has returned the table
Loaded == pc \in {"create_dataset_identifier", "no_data"}

\* how many patterns of the configuration's groups match a path
MatchCount(path) ==
    Cardinality({gj \in UNION {{<<g, j>> :
                                   j \in DOMAIN Get(config.data[g], "files", <<>>)} :
                               g \in DOMAIN config.data} :
                    Matches(config.data[gj[1]].files[gj[2]], path)})

\* C10: a file matched by k glob patterns is parsed k times and contributes
\* its rows k times to the combined table; matches are never collapsed.
C10_GlobUnionNoDedup ==
    Loaded =>
        \A path \in DOMAIN files :
            Cardinality({i \in DOMAIN df.rows : df.rows[i].filepath = path})
                = MatchCount(path)
                      * Len(CallParser(parser_func, files, path, EmptyDict).rows)

\* one group whose two patterns both match a.json: its two summary rows are
\* in the table twice
C10_Witness ==
    /\ Loaded
    /\ parser_func = "parse_benchmark_metrics"
    /\ DOMAIN files = {PathA, PathB}
    /\ config.data = <<[files |-> <<Str(<<"runs", "/", "*">>), PathA>>]>>
    /\ Cardinality({i \in DOMAIN df.rows : df.rows[i].filepath = PathA}) = 4

----------------------------------------------------------------------------
(* Properties of the enrichment, under SpecLoad *)

\* C11: applying create_dataset_identifier twice to a table yields the same
\* dataset_id value in every row, and the same set of columns, as applying
\* it once. Checked on every loaded table, before and after main's call.
C11_EnrichmentIdempotent ==
    pc \in {"create_dataset_identifier", "filter_data_by_levels"} =>
        LET once  == create_dataset_identifier(df)
            twice == create_dataset_identifier(once)
        IN  /\ twice.columns = once.columns
            /\ DOMAIN twice.rows = DOMAIN once.rows
            /\ \A i \in DOMAIN once.rows :
                  twice.rows[i].dataset_id = once.rows[i].dataset_id

\* main has called it once; a second call leaves "512-256" and "0-0" as they
\* are
C11_Witness ==
    /\ pc = "filter_data_by_levels"
    /\ parser_func = "parse_benchmark_metrics"
    /\ create_dataset_identifier(df) = df
    /\ \E i, j \in DOMAIN df.rows :
          /\ df.rows[i].dataset_id = Str(<<"5", "1", "2", "-", "2", "5", "6">>)
          /\ df.rows[j].dataset_id = Str(<<"0", "-", "0">>)

----------------------------------------------------------------------------
(* Properties of load_data_from_config, under SpecLoad *)

\* the files that cannot be opened or decoded
Unreadable == {path \in DOMAIN files : IsRaised(files[path])}

\* C12: for a file that cannot be read or is not valid JSON, both extractors
\* return an empty sequence without raising, and load_data_from_config does
\* not raise and returns the table it returns for the directory without that
\* file: all the rows of the other files.
C12_PerFileFailSoft ==
    /\ \A path \in Unreadable :
          \A func \in {"parse_benchmark_metrics", "parse_individual_requests"} :
              \A metadata \in {EmptyDict} \cup GroupMetadata :
                  CallParser(func, files, path, metadata) = Returns(<<>>)
    /\ (pc # "load_data_from_config" /\ Unreadable # {}) => exception = ""
    /\ Loaded =>
          df = load_data_from_config(
                   config, parser_func, files,
                   SelectSeq(listing, LAMBDA path : path \notin Unreadable)).table

\* a.json cannot be opened and is listed first: the table holds the two
\* summary rows of b.json
C12_Witness ==
    /\ Loaded
    /\ DOMAIN files = {PathA, PathB}
    /\ files[PathA] = Raised("PermissionError")
    /\ listing = <<PathA, PathB>>
    /\ parser_func = "parse_benchmark_metrics"
    /\ config.data = <<[files |-> <<Str(<<"runs", "/", "*">>)>>]>>
    /\ Len(df.rows) = 2
    /\ \A i \in DOMAIN df.rows : df.rows[i].filepath = PathB

----------------------------------------------------------------------------
(* Error handling of the two extractors, under SpecParse *)

\* C13: for every decoded JSON document, whatever its shape, both
\* extractors return normally; no exception escapes to the caller.
C13_NoExceptionEscapes ==
    pc \in {"parse_individual_requests", "parsed"} => exception = ""

\* an entry from which concurrency or rps can be resolved
HasAxis(benchmark) == Concurrency(benchmark) # None \/ Rps(benchmark) # None

\* C14: an entry with neither concurrency nor rps resolvable produces no row
\* and the other entries of the file are still processed: the summary rows
\* of a file are the rows of its entries that have an axis value, one each,
\* in entry order.
C14_SkipAndContinue ==
    SummaryReturned =>
        LET valid == SelectSeq(TheEntries, HasAxis) IN
        /\ Len(rows) = Len(valid)
        /\ \A i \in DOMAIN rows :
              /\ <<rows[i]>> =
                     SummaryOfEntry(valid[i], filepath, extra_metadata).rows
              /\ AxisKept => /\ rows[i].concurrency = Concurrency(valid[i])
                             /\ rows[i].rps = Rps(valid[i])

\* the entry with no axis value comes first and is skipped; the row of the
\* entry after it, with concurrency 8, is the only row
C14_Witness ==
    /\ SummaryReturned
    /\ Len(TheEntries) = 2
    /\ ~HasAxis(TheEntries[1])
    /\ Len(rows) = 1
    /\ rows[1].concurrency = Num(8)

\* requests.successful of an entry
Successful(benchmark) ==
    Get(Get(benchmark, "requests", EmptyDict), "successful", <<>>)

\* the successful requests of a list of entries, in order
RECURSIVE AllSuccessful(_)
AllSuccessful(entries) ==
    IF Len(entries) = 0 THEN <<>>
    ELSE Successful(Head(entries)) \o AllSuccessful(Tail(entries))

\* C15: per-request extraction emits exactly one row per element of
\* requests.successful of each entry that has an axis value, in order, and
\* no row for errored or incomplete requests; an entry with no successful
\* request gives no request row, while summary extraction still emits its
\* row.
C15_OneRowPerSuccessfulRequest ==
    RequestsReturned =>
        LET valid    == SelectSeq(TheEntries, HasAxis)
            expected == AllSuccessful(valid)
        IN  /\ Len(all_requests) = Len(expected)
            /\ \A k \in DOMAIN all_requests :
                  /\ all_requests[k].request_id =
                         Get(expected[k], "request_id", Str(<<>>))
                  /\ all_requests[k].start_time = StartTime(expected[k])
            /\ Len(rows) = Len(valid)

\* one entry with one successful, one errored and one incomplete request:
\* one request row, and the summary row
C15_Witness ==
    /\ RequestsReturned
    /\ Len(TheEntries) = 1
    /\ "requests" \in DOMAIN TheEntries[1]
    /\ "errored" \in DOMAIN TheEntries[1].requests
    /\ Len(Successful(TheEntries[1])) = 1
    /\ Len(all_requests) = 1
    /\ all_requests[1].request_id = Name("r3")
    /\ Len(rows) = 1

\* every key of the metadata is in the row with the metadata's value
Carries(row, metadata) ==
    \A k \in DOMAIN metadata : k \in DOMAIN row /\ row[k] = metadata[k]

\* C16: every row emitted for a file contains every key of the
\* caller-supplied extra_metadata with its value verbatim; on a collision
\* with an extracted field (filename, concurrency, rps) the metadata value
\* is the one in the row.
C16_MetadataMerge ==
    /\ SummaryReturned =>
          \A i \in DOMAIN rows : Carries(rows[i], extra_metadata)
    /\ RequestsReturned =>
          \A i \in DOMAIN all_requests : Carries(all_requests[i], extra_metadata)

\* metadata {concurrency: 64, rps: 1, filename: "x"} on an entry whose own
\* concurrency is 4: the request row has the metadata's values
C16_Witness ==
    /\ RequestsReturned
    /\ extra_metadata =
           [concurrency |-> Num(64), rps |-> Num(1), filename |-> Name("x")]
    /\ Len(TheEntries) = 1
    /\ Concurrency(TheEntries[1]) = Num(4)
    /\ Len(all_requests) = 1
    /\ all_requests[1].concurrency = Num(64)
    /\ all_requests[1].rps = Num(1)
    /\ all_requests[1].filename = Name("x")
    /\ Len(rows) = 1 /\ rows[1].filename = Name("x")

\* the concatenation of a sequence of sequences
RECURSIVE Concat(_)
Concat(ss) == IF Len(ss) = 0 THEN <<>> ELSE Head(ss) \o Concat(Tail(ss))

\* the rows the extractor returns for the files pattern j of group g matches,
\* in directory order, with the metadata of group g
PatternRows(g, j) ==
    LET matched == glob(listing, config.data[g].files[j]) IN
    Concat([k \in DOMAIN matched |->
               CallParser(parser_func, files, matched[k],
                          Get(config.data[g], "extra_metadata", EmptyDict)).rows])

\* the rows of group g: pattern by pattern
GroupRows(g) ==
    Concat([j \in DOMAIN Get(config.data[g], "files", <<>>) |-> PatternRows(g, j)])

\* C17: load_data_from_config concatenates rows in group-then-file order
\* (all rows of group i before any row of group i+1, files in expansion
\* order within a group, rows in the extractor's order within a file), each
\* row carrying only its own group's metadata (the columns of another
\* group's metadata are null in it); when no file matches anywhere it
\* returns an empty table without raising.
C17_GroupThenFileOrder ==
    /\ Loaded =>
          LET expected == Concat([g \in DOMAIN config.data |-> GroupRows(g)]) IN
          /\ Len(df.rows) = Len(expected)
          /\ \A i \in DOMAIN df.rows :
                /\ DOMAIN expected[i] \subseteq df.columns
                /\ \A c \in DOMAIN expected[i] : df.rows[i][c] = expected[i][c]
                /\ \A c \in df.columns \ DOMAIN expected[i] :
                      df.rows[i][c] = None
    /\ ( /\ pc # "load_data_from_config"
         /\ \A path \in DOMAIN files : MatchCount(path) = 0 )
       => pc = "no_data" /\ exception = "" /\ df.rows = <<>>

\* two groups with different metadata: the rows of a.json with gpu H100 come
\* first and have no tp, the rows of b.json with gpu A100 and tp 2 follow
C17_Witness ==
    /\ Loaded
    /\ DOMAIN files = {PathA, PathB}
    /\ ~IsRaised(files[PathA])
    /\ parser_func = "parse_benchmark_metrics"
    /\ Len(config.data) = 2
    /\ Get(config.data[1], "extra_metadata", EmptyDict) = [gpu |-> Name("H100")]
    /\ "tp" \in DOMAIN Get(config.data[2], "extra_metadata", EmptyDict)
    /\ Len(df.rows) = 4
    /\ df.rows[1].filepath = PathA /\ df.rows[1].gpu = Name("H100")
    /\ df.rows[1].tp = None
    /\ df.rows[4].filepath = PathB /\ df.rows[4].gpu = Name("A100")
    /\ df.rows[4].tp = Num(2)

----------------------------------------------------------------------------
(* Frame of the enrichment, under SpecLoad *)

\* a is b with some elements left out, the others in their order
RECURSIVE IsSubsequence(_, _)
IsSubsequence(a, b) ==
    IF Len(a) = 0 THEN TRUE
    ELSE IF Len(b) = 0 THEN FALSE
    ELSE IF Head(a) = Head(b) THEN IsSubsequence(Tail(a), Tail(b))
    ELSE IsSubsequence(a, Tail(b))

\* C18: across create_dataset_identifier followed by filter_data_by_levels
\* no extracted value of a surviving row changes: the first step keeps
\* every row and every value and only adds the column dataset_id, the
\* second keeps the columns and only leaves rows out.
C18_EnrichmentFrame ==
    [][ /\ pc = "create_dataset_identifier" =>
              /\ df'.columns = df.columns \cup {"dataset_id"}
              /\ DOMAIN df'.rows = DOMAIN df.rows
              /\ \A i \in DOMAIN df.rows :
                    \A c \in df.columns \ {"dataset_id"} :
                        df'.rows[i][c] = df.rows[i][c]
        /\ pc = "filter_data_by_levels" =>
              /\ df'.columns = df.columns
              /\ IsSubsequence(df'.rows, df.rows)
      ]_vars

\* the summary table of the two files filtered by the levels [4]: the one
\* surviving row is the first loaded row, with a dataset_id
C18_Witness ==
    /\ pc = "loaded"
    /\ parser_func = "parse_benchmark_metrics"
    /\ DOMAIN files = {PathA, PathB}
    /\ listing = <<PathA, PathB>>
    /\ ConfiguredLevels(config) = PyList(<<Num(4)>>)
    /\ AxisField = "concurrency"
    /\ Len(df.rows) = 1
    /\ LET loaded == load_data_from_config(config, parser_func, files,
                                           listing).table
       IN  /\ Len(loaded.rows) = 4
           /\ df.columns = loaded.columns \cup {"dataset_id"}
           /\ "dataset_id" \notin loaded.columns
           /\ \A c \in loaded.columns : df.rows[1][c] = loaded.rows[1][c]

\* str(v) of a count or a string
TextOf(v) == IF v.kind = "num" THEN Decimal(v.num) ELSE v.text

\* C19: after enrichment the dataset_id of every row of either table is
\* "<prompt_tokens>-<output_tokens>" of the entry's dataset settings; for a
\* request row these are dataset_prompt_tokens and dataset_output_tokens,
\* not the request's own measured token counts.
C19_DatasetIdFromSettings ==
    pc = "filter_data_by_levels" =>
        \A i \in DOMAIN df.rows :
            df.rows[i].dataset_id =
                IF parser_func = "parse_individual_requests"
                THEN Str(TextOf(df.rows[i].dataset_prompt_tokens) \o <<"-">>
                         \o TextOf(df.rows[i].dataset_output_tokens))
                ELSE Str(TextOf(df.rows[i].prompt_tokens) \o <<"-">>
                         \o TextOf(df.rows[i].output_tokens))

\* the table without column c
Drop(table, c) ==
    [columns |-> table.columns \ {c},
     rows |-> [i \in DOMAIN table.rows |->
                  [k \in table.columns \ {c} |-> table.rows[i][k]]]]

\* C20: filter_data_by_levels returns the table unchanged (same rows, same
\* order) when levels is null or when the axis field is not a column of the
\* table (checked on the table with that column taken out), and returns an
\* empty table without raising when no row's value is in levels.
C20_FilterUnchangedOrEmpty ==
    [][ pc = "filter_data_by_levels" =>
          /\ ConfiguredLevels(config) = None => df' = df
          /\ filter_data_by_levels(Drop(df, AxisField), get_axis_mode(config),
                                   ConfiguredLevels(config))
                 = Drop(df, AxisField)
          /\ ( /\ ConfiguredLevels(config) # None
               /\ Members(df) = {} )
             => /\ df' = [columns |-> df.columns, rows |-> <<>>]
                /\ exception' = ""
                /\ pc' = "loaded"
      ]_vars

\* the levels [3] match no run of the two files: the filtered table has the
\* columns and no row
C20_Witness ==
    /\ pc = "loaded"
    /\ exception = ""
    /\ DOMAIN files = {PathA, PathB}
    /\ ConfiguredLevels(config) = PyList(<<Num(3)>>)
    /\ AxisField = "concurrency"
    /\ df.rows = <<>>
    /\ {"concurrency", "dataset_id"} \subseteq df.columns

----------------------------------------------------------------------------
(* Properties of main, under SpecMain *)

\* the configuration file is missing or unreadable, or has no data section
BadConfig == IsRaised(load_config(config_file))

\* --summary-only and --requests-only are given together
BothFlags == args.summary_only /\ args.requests_only

\* C21: main exits non-zero when the configuration file is missing or
\* unreadable or lacks the data section, when both exclusive flags are given,
\* and when both resulting tables are empty; in every other case it reaches
\* report generation.
C21_ExitStatus ==
    [][ (pc # "exited" /\ pc' = "exited") =>
          IF \/ BadConfig
             \/ BothFlags
             \/ NoData(summary_df') /\ NoData(requests_df')
          THEN exit_status' = 1 /\ pc # "generate_html_report"
          ELSE pc = "generate_html_report"
      ]_vars

\* the options of the configuration main loaded are a mapping (or absent)
OptionsGiven ==
    /\ pc \notin {"main", "load_config"}
    /\ IsDict(Get(config, "options", EmptyDict))

CoercedInOrder(result, levels) ==
    /\ result.kind = "list"
    /\ levels.kind = "list"
    /\ Len(result.items) = Len(levels.items)
    /\ \A i \in DOMAIN levels.items : result.items[i] = Float(levels.items[i])

\* C23: get_concurrency_levels and get_rps_levels return the configured list
\* with every element coerced to a float, in order, and return null without
\* raising when the option is missing or an element, or the value itself,
\* cannot be coerced.
C23_LevelsCoercedOrNull ==
    OptionsGiven =>
        \A key \in {"concurrency_levels", "rps_levels"} :
            /\ ~IsRaised(LevelsOption(config, key))
            /\ \/ LevelsOption(config, key) = None
               \/ CoercedInOrder(LevelsOption(config, key),
                                 Get(config, "options", EmptyDict)[key])
            /\ key \notin DOMAIN Get(config, "options", EmptyDict)
                  => LevelsOption(config, key) = None

\* the table is empty or has no column color_col
Degraded(table) == IsEmpty(table) \/ ~HasColumn(table, color_col)

\* C24: the chart functions return a placeholder fragment and never raise
\* when the table they are given is empty or lacks a column they need (here
\* the grouping column color_col), and so generate_all_charts does not raise.
C24_RendererDegrades ==
    pc = "generate_html_report" =>
        /\ Degraded(summary_df) =>
              /\ create_throughput_chart(summary_df, color_col,
                                         get_axis_mode(config)) = Placeholder
              /\ \A i \in DOMAIN LatencyMetrics :
                    create_latency_chart(summary_df, LatencyMetrics[i],
                                         color_col, get_axis_mode(config))
                        = Placeholder
        /\ Degraded(requests_df) =>
              /\ \A c \in {"prompt_tokens", "output_tokens"} :
                    create_token_length_histograms(requests_df, c, color_col,
                                                   get_axis_mode(config))
                        = Placeholder
              /\ \A c \in {"time_to_first_token_ms", "inter_token_latency_ms"} :
                    create_histogram_deep_dive(requests_df, c, color_col,
                                               get_axis_mode(config))
                        = Placeholder
              /\ ~IsRaised(create_request_scheduling_charts(
                               requests_df, color_col, get_axis_mode(config)))
        /\ (Degraded(summary_df) \/ Degraded(requests_df)) =>
              ~IsRaised(generate_all_charts(summary_df, requests_df, color_col,
                                            get_axis_mode(config)))

----------------------------------------------------------------------------
(* Axis resolution and run start time, under SpecParse *)

\* d[k] when the key is there, else null
Given(d, k) == IF k \in DOMAIN d THEN d[k] ELSE None

\* the strategy type as the claim reads it: strategy.type_, else
\* profile.strategy_type
ClaimedType(e) ==
    IF "type_" \in DOMAIN Strategy(e) THEN Strategy(e).type_
    ELSE Given(Profile(e), "strategy_type")

\* the first element of profile.rate, when that is a list with elements
ClaimedFirstRate(e) ==
    IF /\ Given(Profile(e), "rate").kind = "list"
       /\ Len(Given(Profile(e), "rate").items) > 0
    THEN Given(Profile(e), "rate").items[1]
    ELSE None

\* rps as the claim reads it
ClaimedRps(e) ==
    IF ClaimedType(e) # Name("constant") THEN None
    ELSE IF Given(Strategy(e), "rate") # None
    THEN Float(Given(Strategy(e), "rate"))
    ELSE IF ClaimedFirstRate(e) # None THEN Float(ClaimedFirstRate(e))
    ELSE None

\* concurrency as the claim reads it
ClaimedConcurrency(e) ==
    IF Given(Strategy(e), "max_concurrency") # None
    THEN Strategy(e).max_concurrency
    ELSE Given(Strategy(e), "streams")

ClaimedAxis(e) == ClaimedConcurrency(e) # None \/ ClaimedRps(e) # None

\* C25: a row's rps is non-null only if the entry's strategy type
\* (strategy.type_, else profile.strategy_type) is "constant"; then rps is
\* the numeric cast of strategy.rate, else of the first element of
\* profile.rate, else null; concurrency is strategy.max_concurrency, else
\* strategy.streams, else null. Summary rows are compared entry by entry,
\* every request row with an entry of the file.
C25_AxisResolution ==
    AxisKept =>
        /\ SummaryReturned =>
              LET kept == SelectSeq(TheEntries, ClaimedAxis) IN
              /\ Len(rows) = Len(kept)
              /\ \A i \in DOMAIN rows :
                    /\ rows[i].concurrency = ClaimedConcurrency(kept[i])
                    /\ rows[i].rps = ClaimedRps(kept[i])
                    /\ rows[i].rps # None
                          => ClaimedType(kept[i]) = Name("constant")
        /\ RequestsReturned =>
              \A i \in DOMAIN all_requests :
                  \E j \in DOMAIN TheEntries :
                      /\ all_requests[i].concurrency
                             = ClaimedConcurrency(TheEntries[j])
                      /\ all_requests[i].rps = ClaimedRps(TheEntries[j])
                      /\ all_requests[i].rps # None
                            => ClaimedType(TheEntries[j]) = Name("constant")

\* a constant run described by profile.strategy_type and profile.rate, with
\* no strategy.rate: rps is the first element of the list
C25_Witness ==
    /\ SummaryReturned
    /\ AxisKept
    /\ Len(TheEntries) = 1
    /\ Len(rows) = 1
    /\ "type_" \notin DOMAIN Strategy(TheEntries[1])
    /\ "rate" \notin DOMAIN Strategy(TheEntries[1])
    /\ Given(Profile(TheEntries[1]), "rate") = PyList(<<Num(9), Num(1)>>)
    /\ rows[1].rps = Num(9)

\* the run start time as the claim reads it: run_stats.start_time, else the
\* top-level start_time, else null
ClaimedRunStart(e) ==
    IF Given(Get(e, "run_stats", EmptyDict), "start_time") # None
    THEN e.run_stats.start_time
    ELSE Given(e, "start_time")

\* a positive absolute time counted from the run start; 0 when the run start
\* is not known
Since(absolute, run_start) ==
    IF run_start = None THEN Num(0) ELSE Num(absolute.num - run_start.num)

\* C26: the run start time used for the relative timestamps is
\* run_stats.start_time when present, else the entry's top-level start_time,
\* else null; an entry that has both with different values gets its relative
\* timestamps computed against run_stats.start_time.
C26_RunStartTime ==
    (RequestsReturned /\ Len(TheEntries) = 1) =>
        \A i \in DOMAIN all_requests :
            /\ all_requests[i].start_time.num > 0
                  => all_requests[i].start_time_relative
                         = Since(all_requests[i].start_time,
                                 ClaimedRunStart(TheEntries[1]))
            /\ all_requests[i].end_time.num > 0
                  => all_requests[i].end_time_relative
                         = Since(all_requests[i].end_time,
                                 ClaimedRunStart(TheEntries[1]))

\* run_stats.start_time 20 and start_time 11: a request that started at 12
\* has the relative start -8, not 1
C26_Witness ==
    /\ RequestsReturned
    /\ Len(TheEntries) = 1
    /\ Given(Get(TheEntries[1], "run_stats", EmptyDict), "start_time") = Num(20)
    /\ Given(TheEntries[1], "start_time") = Num(11)
    /\ Len(all_requests) > 0
    /\ all_requests[1].start_time = Num(12)
    /\ all_requests[1].start_time_relative = Num(-8)

----------------------------------------------------------------------------
(* JSON-object dataset settings, under SpecSettings *)

\* data is a stringified list that literal_eval accepts
ListForm(d) ==
    /\ d.kind = "str"
    /\ StartsWith(d.text, <<"[", "'">>)
    /\ EndsWith(d.text, <<"'", "]">>)
    /\ literal_eval(d.text).ok

\* C27: when the loader's data is not a stringified one-element list,
\* extract_dataset_settings decodes it as a JSON object and returns its
\* prompt_tokens, prompt_tokens_stdev, output_tokens and output_tokens_stdev
\* (0 for an absent key) with the loader's processor; on a JSON decode
\* failure or a data of the wrong type it returns an empty mapping without
\* raising.
C27_JsonObjectSettings ==
    ( /\ pc = "settings_done"
      /\ request_loader # None
      /\ TruthyValue(Get(request_loader, "data", Str(<<>>)))
      /\ ~ListForm(request_loader.data) )
    => /\ exception = ""
       /\ IF json_loads(request_loader.data).kind = "dict"
          THEN dataset_settings =
                 [k \in JsonKeys |->
                     Get(json_loads(request_loader.data).dict, k, Num(0))]
                 @@ [processor |-> Get(request_loader, "processor", Str(<<>>))]
          ELSE dataset_settings = EmptyDict

----------------------------------------------------------------------------
(* Empty-result escalation in main, under SpecMain *)

NeitherFlag == ~args.summary_only /\ ~args.requests_only

\* a loading block ends the run only for the table its flag makes mandatory,
\* and the check of lines 159-161 ends it exactly when both tables are empty
FatalOnlyWhenMandatory ==
    /\ (pc = "load_summary" /\ pc' = "exited")
          => args.summary_only /\ exception' # ""
    /\ (pc = "load_requests" /\ pc' = "exited")
          => args.requests_only /\ exception' # ""
    /\ pc = "check_data"
          => (pc' = "exited" <=> NoData(summary_df) /\ NoData(requests_df))
    /\ (pc = "check_data" /\ pc' = "exited") => exit_status' = 1

\* the summary block of this run caught an exception
SummaryLoadRaised ==
    /\ ~args.requests_only
    /\ Loading(load_data_from_config(config, "parse_benchmark_metrics", files,
                                     listing),
               None, get_axis_mode(config), ConfiguredLevels(config),
               get_color_column(config), TRUE).exception # ""

\* the request block of this run caught an exception: it is the last one
\* caught before the report is generated
RequestLoadRaised == ~args.summary_only /\ exception # ""

\* one table is empty or its load raised, and the other table is not empty
OneTableOnly ==
    \/ NoData(summary_df) # NoData(requests_df)
    \/ SummaryLoadRaised /\ ~NoData(requests_df)
    \/ RequestLoadRaised /\ ~NoData(summary_df)

\* C28: an empty or failed summary (request) load ends the run only under
\* --summary-only (--requests-only) or when both tables end up empty; with
\* neither flag, when one table is empty or its load raised and the other
\* table is not empty, the report is generated and the exit status is 0.
C28_EmptyResultEscalation ==
    [][ /\ FatalOnlyWhenMandatory
        /\ (pc = "generate_html_report" /\ NeitherFlag /\ OneTableOnly)
              => exit_status' = 0 /\ charts' # EmptyDict
      ]_vars

----------------------------------------------------------------------------
(* Agreement of the two extractors, under SpecParse *)

\* the columns the two tables share, and the dataset lengths under the
\* names p and o they have in a table
Combination(row, p, o) ==
    <<row.filename, row.concurrency, row.rps, row[p], row[o]>>

\* every combination of a request row is the combination of a summary row
RequestsWithinSummary(summary, requests) ==
    \A i \in DOMAIN requests :
        \E j \in DOMAIN summary :
            Combination(requests[i], "dataset_prompt_tokens",
                        "dataset_output_tokens")
                = Combination(summary[j], "prompt_tokens", "output_tokens")

\* parse_individual_requests returns, after parse_benchmark_metrics returned
BothReturn == pc = "parse_individual_requests" /\ exception = "" /\ exception' = ""

\* the group's metadata names none of the dataset length columns
TokensKept ==
    {"prompt_tokens", "output_tokens", "dataset_prompt_tokens",
     "dataset_output_tokens"} \cap DOMAIN extra_metadata = {}

----------------------------------------------------------------------------
(* Level selection in main, under SpecMain *)

\* the list of the configuration that matches the axis mode, as written
ClaimedLevels(cfg) ==
    Given(Get(cfg, "options", EmptyDict),
          IF get_axis_mode(cfg) = Name("concurrency") THEN "concurrency_levels"
          ELSE "rps_levels")

\* no list, or a list with no element
Absent(levels) ==
    levels = None \/ (levels.kind = "list" /\ Len(levels.items) = 0)

\* the column of the axis mode
ClaimedField(cfg) ==
    IF get_axis_mode(cfg) = Name("concurrency") THEN "concurrency" ELSE "rps"

\* the rows the claim keeps: all of them without a list, else those whose
\* axis value is an element of the list
ClaimedKept(table, cfg) ==
    IF Absent(ClaimedLevels(cfg)) THEN table.rows
    ELSE SelectSeq(table.rows,
                   LAMBDA r : \E i \in DOMAIN ClaimedLevels(cfg).items :
                                 r[ClaimedField(cfg)] = ClaimedLevels(cfg).items[i])

\* the table a loading block of main starts from
TableLoadedBy(parser) ==
    create_dataset_identifier(
        load_data_from_config(config, parser, files, listing).table)

\* C30: main applies to each table only the level list that matches the
\* axis mode (concurrency_levels under concurrency, rps_levels otherwise),
\* the same list to the summary and to the request table, and a configured
\* list with no element is treated as absent: no row is filtered out.
C30_LevelSelection ==
    [][ /\ ( /\ pc = "load_summary" /\ pc' = "load_requests"
             /\ ~args.requests_only
             /\ exception' = ""
             /\ ~IsEmpty(TableLoadedBy("parse_benchmark_metrics")) )
           => summary_df'.rows
                  = ClaimedKept(TableLoadedBy("parse_benchmark_metrics"), config)
        /\ ( /\ pc = "load_requests" /\ pc' = "check_data"
             /\ ~args.summary_only
             /\ exception' = ""
             /\ ~IsEmpty(TableLoadedBy("parse_individual_requests")) )
           => requests_df'.rows
                  = ClaimedKept(TableLoadedBy("parse_individual_requests"), config)
      ]_vars

\* axis mode rps with rps_levels [2] and concurrency_levels [4]: both tables
\* keep the runs at 2 requests per second, whose concurrency is not 4, and
\* drop the others
C30_Witness ==
    /\ pc = "check_data"
    /\ get_axis_mode(config) = Name("rps")
    /\ ClaimedLevels(config) = PyList(<<Num(2)>>)
    /\ Given(config.options, "concurrency_levels") = PyList(<<Num(4)>>)
    /\ ~NoData(summary_df) /\ ~NoData(requests_df)
    /\ Len(summary_df.rows) < Len(TableLoadedBy("parse_benchmark_metrics").rows)
    /\ Len(requests_df.rows) < Len(TableLoadedBy("parse_individual_requests").rows)
    /\ \A i \in DOMAIN summary_df.rows :
          summary_df.rows[i].rps = Num(2) /\ summary_df.rows[i].concurrency # Num(4)
    /\ \A i \in DOMAIN requests_df.rows :
          requests_df.rows[i].rps = Num(2) /\ requests_df.rows[i].concurrency # Num(4)

====
